---------------------------- MODULE Spec2Model ----------------------------
(***************************************************************************)
(* A model of scripts/lint_yaml.py: the schema validation engine           *)
(* (validate_obj), the role dispatch (is_role), the active role / party    *)
(* cardinality rule (validate_roles), the district reconciliation          *)
(* (get_expected_districts, compare_districts) and the Validator that      *)
(* process_dir runs over the files of a directory; and of                  *)
(* scripts/to_database.py: the load of the person and organization files   *)
(* into the database inside one transaction (to_database, load_directory,  *)
(* load_person, load_org, get_update_or_create, update_subobjects).        *)
(*                                                                         *)
(* Python values are records [kind, text, fields, items]:                  *)
(*   kind "str"  : a string, text holds it                                 *)
(*   kind "int"  : an integer, text holds its decimal numeral              *)
(*   kind "none" : None                                                    *)
(*   kind "dict" : a mapping, fields is a function from keys to values     *)
(*   kind "list" : a list, items is the sequence of its elements           *)
(* A Python string that the program builds (an error message) is the       *)
(* sequence of the pieces it is concatenated from.                         *)
(***************************************************************************)
EXTENDS Integers, Sequences, FiniteSets, TLC

VARIABLES
    pc,         \* position of the caller: "ready" before the call, "done" after
    op,         \* the operation the caller runs
    schemaName, \* validate_obj: name of the schema passed
    obj,        \* validate_obj / is_role: the record passed
    setOrder,   \* iteration order Python's set() gives the undeclared keys
    result,     \* validate_obj / is_role / validate_roles: value returned
    roles_key,  \* validate_roles: 'roles' or 'party'
    retired,    \* validate_roles: the retired flag
    settings,   \* get_expected_districts: the settings mapping
    expected,   \* get_expected_districts: value returned
    actual,     \* compare_districts: the occupancy passed
    compared,   \* compare_districts: (errors, warnings) returned
    files,      \* process_dir: the people, retired and organization files
    position,   \* process_dir: the number of files validated so far
    self,       \* process_dir: the Validator
    db,         \* to_database: the database
    snapshot,   \* to_database: the database on entry of transaction.atomic()
    person_files,    \* to_database: the records of the people and retired files
    committee_files, \* to_database: the records of the organization files
    purge,      \* to_database: the --purge option
    safe,       \* to_database: the --safe option
    frame,      \* load_directory: type, existing_ids, ids and the files loaded
    subobjects, \* update_subobjects: the fieldname and the list of objects passed
    returned    \* update_subobjects: the values the calls made so far returned

lintVars == <<files, position, self>>
subVars == <<subobjects, returned>>
dbVars == <<db, snapshot, person_files, committee_files, purge, safe, frame,
           subobjects, returned>>
callVars == <<op, schemaName, obj, setOrder, roles_key, retired, settings,
              expected, actual, compared, files, position, self>>
vars == <<pc, op, schemaName, obj, setOrder, result, roles_key, retired,
          settings, expected, actual, compared, files, position, self,
          db, snapshot, person_files, committee_files, purge, safe, frame,
          subobjects, returned>>

(***************************************************************************)
(* Bounds of the model.                                                    *)
(***************************************************************************)
MaxItems == 2       \* longest list drawn for a NestedList field
MaxRoles == 3       \* longest roles / party list drawn for validate_roles
MaxSeats == 3       \* largest integer '<chamber>_seats' drawn
MaxOccupants == 2   \* most records drawn for one (chamber, district)
MaxFiles == 2       \* most person files drawn for process_dir

(***************************************************************************)
(* Python values.                                                          *)
(***************************************************************************)
StrVal(t) == [kind |-> "str", text |-> t, fields |-> <<>>, items |-> <<>>]
IntVal(t) == [kind |-> "int", text |-> t, fields |-> <<>>, items |-> <<>>]
None == [kind |-> "none", text |-> "None", fields |-> <<>>, items |-> <<>>]
Dict(f) == [kind |-> "dict", text |-> "", fields |-> f, items |-> <<>>]
List(s) == [kind |-> "list", text |-> "", fields |-> <<>>, items |-> s]
EmptyDict == Dict(<<>>)

Keys(d) == DOMAIN d.fields
Has(d, k) == d.kind = "dict" /\ k \in Keys(d)

\* str(i) for the list indexes and seat numbers the model reaches
DecimalNumerals == <<"0", "1", "2", "3", "4", "5", "6", "7", "8", "9", "10">>
str(i) == DecimalNumerals[i + 1]

\* '.'.join(parts)
RECURSIVE join(_)
join(parts) ==
    IF Len(parts) = 0 THEN <<>>
    ELSE IF Len(parts) = 1 THEN <<parts[1]>>
    ELSE <<parts[1], ".">> \o join(Tail(parts))

\* a returned value: exc = "" and the list of errors, or the exception raised
Ok(errs) == [exc |-> "", errors |-> errs]
Raise(e) == [exc |-> e, errors |-> <<>>]

(***************************************************************************)
(* Format validators.  The strings of the model are the sample strings     *)
(* below; a regular expression or a prefix test is the set of samples it   *)
(* accepts.                                                                *)
(***************************************************************************)
GOOD_PERSON_ID == "ocd-person/12345678-0000-1111-2222-1234567890ab"
SECOND_PERSON_ID == "ocd-person/abcdefab-0000-1111-2222-1234567890ab"
GOOD_ORG_ID == "ocd-organization/00001111-2222-3333-aaaa-444455556666"
SENATE_ID == "ocd-organization/11112222-3333-4444-aaaa-555566667777"
PARTY_ID == "ocd-organization/22223333-4444-5555-aaaa-666677778888"
COMMITTEE_ID == "ocd-organization/33334444-5555-6666-aaaa-777788889999"
OLD_COMMITTEE_ID == "ocd-organization/44445555-6666-7777-aaaa-888899990000"
GONE_PERSON_ID == "ocd-person/99999999-0000-1111-2222-1234567890ab"
GOOD_JURISDICTION == "ocd-jurisdiction/country:us/state:nc"

MultiLine == {"line1\nline2"}
StartsWithHttp == {"https://example.com", "http://example.com"}
StartsWithAt == {"@bad-name"}
DATE_RE == {"2010", "2019-01", "2020-01-01"}
PHONE_RE == {"123-346-7990", "1-123-346-7990 ext. 123"}
UUID_RE == {GOOD_PERSON_ID, SECOND_PERSON_ID, GOOD_ORG_ID}
LEGACY_OS_ID_RE == {"AKL000001"}
StartsWithOcdJurisdiction == {GOOD_JURISDICTION}
StartsWithOcdPerson ==
    {GOOD_PERSON_ID, SECOND_PERSON_ID, "ocd-person/1", "ocd-person/2",
     "ocd-person/3"}
StartsWithOcdOrganization ==
    {GOOD_ORG_ID, SENATE_ID, PARTY_ID, COMMITTEE_ID, OLD_COMMITTEE_ID}

is_dict(val) == val.kind = "dict"
is_string(val) == val.kind = "str" /\ val.text \notin MultiLine
is_url(val) == is_string(val) /\ val.text \in StartsWithHttp
is_social(val) ==
    is_string(val) /\ val.text \notin (StartsWithHttp \cup StartsWithAt)
is_fuzzy_date(val) == is_string(val) /\ val.text \in DATE_RE
is_phone(val) == is_string(val) /\ val.text \in PHONE_RE
is_ocd_jurisdiction(val) ==
    is_string(val) /\ val.text \in StartsWithOcdJurisdiction
is_ocd_person(val) ==
    is_string(val) /\ val.text \in StartsWithOcdPerson /\ val.text \in UUID_RE
is_ocd_organization(val) ==
    /\ is_string(val)
    /\ val.text \in StartsWithOcdOrganization
    /\ val.text \in UUID_RE
is_legacy_openstates(val) == is_string(val) /\ val.text \in LEGACY_OS_ID_RE
is_valid_parent(parent) ==
    parent.kind = "str" /\ parent.text \in {"upper", "lower", "legislature"}

\* validator(value), the validator given by its __name__
CallValidator(validator, value) ==
    CASE validator = "is_dict" -> is_dict(value)
      [] validator = "is_string" -> is_string(value)
      [] validator = "is_url" -> is_url(value)
      [] validator = "is_social" -> is_social(value)
      [] validator = "is_fuzzy_date" -> is_fuzzy_date(value)
      [] validator = "is_phone" -> is_phone(value)
      [] validator = "is_ocd_jurisdiction" -> is_ocd_jurisdiction(value)
      [] validator = "is_ocd_person" -> is_ocd_person(value)
      [] validator = "is_ocd_organization" -> is_ocd_organization(value)
      [] validator = "is_legacy_openstates" -> is_legacy_openstates(value)
      [] validator = "is_valid_parent" -> is_valid_parent(value)

(***************************************************************************)
(* Schemas.  A schema is the sequence of its (field, node) items in        *)
(* definition order.  A node is                                            *)
(*   shape "list"       : validators, the list of validator names and the  *)
(*                        Required marker                                  *)
(*   shape "dict"       : schema, the child schema                         *)
(*   shape "NestedList" : schema, the child schema of the elements, or     *)
(*                        fn, the validation function of the elements      *)
(*   any other shape    : an object validate_obj does not know             *)
(***************************************************************************)
Required == "Required"
Leaf(vs) == [shape |-> "list", validators |-> vs, schema |-> <<>>, fn |-> ""]
Object(s) == [shape |-> "dict", validators |-> <<>>, schema |-> s, fn |-> ""]
NestedList(s) ==
    [shape |-> "NestedList", validators |-> <<>>, schema |-> s, fn |-> ""]
NestedListOf(f) ==
    [shape |-> "NestedList", validators |-> <<>>, schema |-> <<>>, fn |-> f]
\* a validator function given bare, where a list of validators is expected
Bare(v) == [shape |-> "function", validators |-> <<v>>, schema |-> <<>>, fn |-> ""]
F(name, n) == [field |-> name, node |-> n]

SchemaKeys(schema) == {schema[i].field : i \in DOMAIN schema}

URL_LIST == NestedList(<<
    F("note", Leaf(<<"is_string">>)),
    F("url", Leaf(<<"is_url", Required>>)) >>)

CONTACT_DETAILS == NestedList(<<
    F("note", Leaf(<<"is_string", Required>>)),
    F("address", Leaf(<<"is_string">>)),
    F("email", Leaf(<<"is_string">>)),
    F("voice", Leaf(<<"is_phone">>)),
    F("fax", Leaf(<<"is_phone">>)) >>)

LEGISLATIVE_ROLE_FIELDS == <<
    F("type", Leaf(<<"is_string", Required>>)),
    F("district", Leaf(<<"is_string", Required>>)),
    F("jurisdiction", Leaf(<<"is_ocd_jurisdiction", Required>>)),
    F("start_date", Leaf(<<"is_fuzzy_date">>)),
    F("end_date", Leaf(<<"is_fuzzy_date">>)),
    F("contact_details", CONTACT_DETAILS) >>

EXECUTIVE_ROLE_FIELDS == <<
    F("type", Leaf(<<"is_string", Required>>)),
    F("jurisdiction", Leaf(<<"is_ocd_jurisdiction", Required>>)),
    F("start_date", Leaf(<<"is_fuzzy_date">>)),
    F("end_date", Leaf(<<"is_fuzzy_date">>)),
    F("contact_details", CONTACT_DETAILS) >>

ORGANIZATION_FIELDS == <<
    F("id", Leaf(<<"is_ocd_organization", Required>>)),
    F("name", Leaf(<<"is_string", Required>>)),
    F("jurisdiction", Leaf(<<"is_ocd_jurisdiction", Required>>)),
    F("parent", Leaf(<<"is_valid_parent", Required>>)),
    F("classification", Leaf(<<"is_string", Required>>)),
    F("founding_date", Leaf(<<"is_fuzzy_date">>)),
    F("dissolution_date", Leaf(<<"is_fuzzy_date">>)),
    F("memberships", NestedList(<<
        F("id", Leaf(<<"is_ocd_person">>)),
        F("name", Leaf(<<"is_string", Required>>)),
        F("role", Leaf(<<"is_string">>)),
        F("start_date", Leaf(<<"is_fuzzy_date">>)),
        F("end_date", Leaf(<<"is_fuzzy_date">>)) >>)),
    F("sources", URL_LIST),
    F("links", URL_LIST) >>

PERSON_FIELDS == <<
    F("id", Leaf(<<"is_ocd_person", Required>>)),
    F("name", Leaf(<<"is_string", Required>>)),
    F("sort_name", Leaf(<<"is_string">>)),
    F("given_name", Leaf(<<"is_string">>)),
    F("family_name", Leaf(<<"is_string">>)),
    F("gender", Leaf(<<"is_string">>)),
    F("summary", Leaf(<<"is_string">>)),
    F("biography", Leaf(<<"is_string">>)),
    F("birth_date", Leaf(<<"is_fuzzy_date">>)),
    F("death_date", Leaf(<<"is_fuzzy_date">>)),
    F("image", Leaf(<<"is_url">>)),
    F("contact_details", CONTACT_DETAILS),
    F("links", URL_LIST),
    F("ids", Object(<<
        F("twitter", Leaf(<<"is_social">>)),
        F("youtube", Leaf(<<"is_social">>)),
        F("instagram", Leaf(<<"is_social">>)),
        F("facebook", Leaf(<<"is_social">>)),
        F("legacy_openstates", Leaf(<<"is_legacy_openstates">>)) >>)),
    F("other_identifiers", NestedList(<<
        F("identifier", Leaf(<<"is_string", Required>>)),
        F("scheme", Leaf(<<"is_string", Required>>)),
        F("start_date", Leaf(<<"is_fuzzy_date">>)),
        F("end_date", Leaf(<<"is_fuzzy_date">>)) >>)),
    F("other_names", NestedList(<<
        F("name", Leaf(<<"is_string", Required>>)),
        F("start_date", Leaf(<<"is_fuzzy_date">>)),
        F("end_date", Leaf(<<"is_fuzzy_date">>)) >>)),
    F("sources", URL_LIST),
    F("party", NestedList(<<
        F("name", Leaf(<<"is_string", Required>>)),
        F("start_date", Leaf(<<"is_fuzzy_date">>)),
        F("end_date", Leaf(<<"is_fuzzy_date">>)) >>)),
    F("roles", NestedListOf("is_role")),
    F("extras", Leaf(<<"is_dict">>)) >>

(***************************************************************************)
(* validate_obj.                                                           *)
(***************************************************************************)
\* f'{value}'
RECURSIVE Format(_)
FormatItems(vals) ==
    [i \in DOMAIN vals |-> Format(vals[i])]
RECURSIVE Concat(_)
Concat(seqs) == IF Len(seqs) = 0 THEN <<>> ELSE seqs[1] \o Concat(Tail(seqs))
Format(value) ==
    CASE value.kind = "list" -> <<"[">> \o Concat(FormatItems(value.items)) \o <<"]">>
      [] value.kind = "dict" -> <<"{", "}">>
      [] OTHER -> <<value.text>>

\* the order in which a set of keys is iterated: ord restricted to S
SetToSeq(S, ord) == SelectSeq(ord, LAMBDA k : k \in S)

\* the keys of a mapping in iteration order
RECURSIVE SeqOfSet(_)
SeqOfSet(S) ==
    IF S = {} THEN <<>>
    ELSE LET k == CHOOSE x \in S : TRUE IN <<k>> \o SeqOfSet(S \ {k})

\* the elements `for index, item in enumerate(value)` yields, or the exception:
\* a list yields its elements, a mapping its keys, a non-empty string its
\* characters (each a string), anything else is not iterable
Enumerate(value) ==
    CASE value.kind = "list" -> Ok(value.items)
      [] value.kind = "dict" ->
            LET ks == SeqOfSet(Keys(value))
            IN  Ok([i \in DOMAIN ks |-> StrVal(ks[i])])
      [] value.kind = "str" ->
            Ok(IF value.text = "" THEN <<>> ELSE <<StrVal("c")>>)
      [] OTHER -> Raise("TypeError")

\* errors.extend(more), an exception raised on the way ends the call
Extend(acc, more) ==
    IF acc.exc # "" THEN acc
    ELSE IF more.exc # "" THEN more
    ELSE Ok(acc.errors \o more.errors)

\* prefix_str of validate_obj
PrefixStr(prefix) == IF prefix # <<>> THEN join(prefix) \o <<".">> ELSE <<>>

\* the errors of the validators of a leaf field whose value is present
LeafErrors(prefix_str, field, validators, value) ==
    LET failed == SelectSeq(validators,
                      LAMBDA v : v # Required /\ ~CallValidator(v, value))
    IN  [i \in DOMAIN failed |->
            prefix_str \o <<field, " failed validation ", failed[i], ": ">>
                \o Format(value)]

\* ExtraKeyErrors with the symmetric difference (^) in place of the difference
ExtraKeyErrors_Symmetric(obj_, schema, prefix_str, ord) ==
    LET extra == SetToSeq((Keys(obj_) \ SchemaKeys(schema))
                          \cup (SchemaKeys(schema) \ Keys(obj_)),
                          ord \o SeqOfSet(SchemaKeys(schema)))
    IN  [i \in DOMAIN extra |-> <<"extra key: ">> \o prefix_str \o <<extra[i]>>]

\* ExtraKeyErrors run for the top-level record only
ExtraKeyErrors_TopOnly(obj_, schema, prefix_str, ord) ==
    IF prefix_str # <<>> THEN <<>>
    ELSE LET extra == SetToSeq(Keys(obj_) \ SchemaKeys(schema), ord)
         IN  [i \in DOMAIN extra |-> <<"extra key: ", extra[i]>>]

\* the 'extra key' errors, in the order the set difference is iterated
ExtraKeyErrors(obj_, schema, prefix_str, ord) ==
    LET extra == SetToSeq(Keys(obj_) \ SchemaKeys(schema), ord)
    IN  [i \in DOMAIN extra |-> <<"extra key: ">> \o prefix_str \o <<extra[i]>>]

\* Reprefix counting the elements from 1
Reprefix_OneBased(field, index, errs) ==
    [i \in DOMAIN errs |->
        join(<<field, str(index + 1)>>) \o <<": ">> \o errs[i]]

\* '.'.join([field, str(index)]) + ': ' + e for each e
Reprefix(field, index, errs) ==
    [i \in DOMAIN errs |-> join(<<field, str(index)>>) \o <<": ">> \o errs[i]]

\* the errors of the iterations of a loop, in order; the first exception
\* raised ends the loop and the call
Collect(rs) ==
    IF \E i \in DOMAIN rs : rs[i].exc # ""
    THEN rs[CHOOSE i \in DOMAIN rs :
                rs[i].exc # "" /\ \A j \in 1..(i - 1) : rs[j].exc = ""]
    ELSE Ok(Concat([i \in DOMAIN rs |-> rs[i].errors]))

RECURSIVE validate_obj(_, _, _, _)
RECURSIVE is_role(_, _)

\* one iteration of a loop over enumerate(value) of a NestedList field
ValidateItem(item, validators, field, index, ord) ==
    IF validators.fn = ""
    THEN validate_obj(item, validators.schema, <<field, str(index)>>, ord)
    ELSE LET r == is_role(item, ord)
         IN  IF r.exc # "" THEN r ELSE Ok(Reprefix(field, index, r.errors))

\* ValidateField without the `continue` of a missing field: its validators run
\* against the Missing marker
ValidateField_NoContinue(obj_, field, validators, prefix_str, ord) ==
    LET value == IF field \in Keys(obj_) THEN obj_.fields[field]
                 ELSE [kind |-> "missing", text |-> "Missing",
                       fields |-> <<>>, items |-> <<>>]
        missing == IF field \notin Keys(obj_)
                      /\ validators.shape = "list"
                      /\ \E i \in DOMAIN validators.validators :
                            validators.validators[i] = Required
                   THEN << prefix_str \o <<field, " missing">> >>
                   ELSE <<>>
    IN  CASE validators.shape = "list" ->
               Ok(missing \o LeafErrors(prefix_str, field,
                                        validators.validators, value))
          [] validators.shape = "dict" ->
               IF field \in Keys(obj_)
               THEN validate_obj(value, validators.schema, <<field>>, ord)
               ELSE Ok(<<>>)
          [] validators.shape = "NestedList" ->
               IF field \notin Keys(obj_) THEN Ok(<<>>)
               ELSE LET its == Enumerate(value)
                    IN  IF its.exc # "" THEN its
                        ELSE Collect([i \in DOMAIN its.errors |->
                                ValidateItem(its.errors[i], validators, field,
                                             i - 1, ord)])
          [] OTHER -> Raise("Exception")

\* the loop body of validate_obj for one (field, validators) item
ValidateField(obj_, field, validators, prefix_str, ord) ==
    IF field \notin Keys(obj_)
    THEN IF validators.shape = "list"
            /\ \E i \in DOMAIN validators.validators :
                    validators.validators[i] = Required
         THEN Ok(<< prefix_str \o <<field, " missing">> >>)
         ELSE Ok(<<>>)
    ELSE LET value == obj_.fields[field]
         IN  CASE validators.shape = "list" ->
                    Ok(LeafErrors(prefix_str, field, validators.validators, value))
               [] validators.shape = "dict" ->
                    validate_obj(value, validators.schema, <<field>>, ord)
               [] validators.shape = "NestedList" ->
                    LET its == Enumerate(value)
                    IN  IF its.exc # "" THEN its
                        ELSE Collect([i \in DOMAIN its.errors |->
                                ValidateItem(its.errors[i], validators, field,
                                             i - 1, ord)])
               [] OTHER -> Raise("Exception")

validate_obj(obj_, schema, prefix, ord) ==
    IF obj_.kind # "dict" THEN Raise("AttributeError")
    ELSE LET prefix_str == PrefixStr(prefix)
             declared == Collect([i \in DOMAIN schema |->
                             ValidateField(obj_, schema[i].field, schema[i].node,
                                           prefix_str, ord)])
         IN  Extend(declared,
                    Ok(ExtraKeyErrors(obj_, schema, prefix_str, ord)))

\* is_role validating a role of any other type as an executive role
is_role_NoInvalidType(role, ord) ==
    IF role.kind # "dict" THEN Raise("AttributeError")
    ELSE LET role_type == IF "type" \in Keys(role) THEN role.fields["type"]
                          ELSE None
         IN  IF role_type.kind = "str"
                /\ role_type.text \in {"upper", "lower", "legislature"}
             THEN validate_obj(role, LEGISLATIVE_ROLE_FIELDS, <<>>, ord)
             ELSE validate_obj(role, EXECUTIVE_ROLE_FIELDS, <<>>, ord)

is_role(role, ord) ==
    IF role.kind # "dict" THEN Raise("AttributeError")
    ELSE LET role_type == IF "type" \in Keys(role) THEN role.fields["type"]
                          ELSE None
         IN  IF role_type.kind = "str"
                /\ role_type.text \in {"upper", "lower", "legislature"}
             THEN validate_obj(role, LEGISLATIVE_ROLE_FIELDS, <<>>, ord)
             ELSE IF role_type.kind = "str" /\ role_type.text \in {"gov", "lt_gov"}
             THEN validate_obj(role, EXECUTIVE_ROLE_FIELDS, <<>>, ord)
             ELSE Ok(<< <<"invalid type">> >>)


(***************************************************************************)
(* validate_roles.                                                         *)
(***************************************************************************)
\* the dates after today, among the sample dates
AfterToday == {"2999", "2999-01-01"}

\* utils.role_is_active: the window from start_date (absent: the beginning of
\* time) to end_date (absent: no end) covers today
role_is_active(role) ==
    /\ ("start_date" \in Keys(role) => role.fields["start_date"].text \notin AfterToday)
    /\ ("end_date" \in Keys(role) => role.fields["end_date"].text \in AfterToday)

\* validate_roles with the retired branch left out
validate_roles_NoRetiredBranch(person, roles_key_, retired_) ==
    IF roles_key_ \notin Keys(person) THEN Raise("KeyError")
    ELSE LET its == Enumerate(person.fields[roles_key_])
         IN  IF its.exc # "" THEN its
             ELSE IF \E i \in DOMAIN its.errors : its.errors[i].kind # "dict"
             THEN Raise("AttributeError")
             ELSE LET active == SelectSeq(its.errors, role_is_active)
                  IN  IF Len(active) = 0 /\ ~retired_
                      THEN Ok(<< <<"no active ", roles_key_>> >>)
                      ELSE IF roles_key_ = "roles" /\ Len(active) > 1
                      THEN Ok(<< <<str(Len(active)), " active roles">> >>)
                      ELSE Ok(<<>>)

validate_roles(person, roles_key_, retired_) ==
    IF roles_key_ \notin Keys(person) THEN Raise("KeyError")
    ELSE LET its == Enumerate(person.fields[roles_key_])
         IN  IF its.exc # "" THEN its
             ELSE IF \E i \in DOMAIN its.errors : its.errors[i].kind # "dict"
             THEN Raise("AttributeError")
             ELSE LET active == SelectSeq(its.errors, role_is_active)
                  IN  IF Len(active) = 0 /\ ~retired_
                      THEN Ok(<< <<"no active ", roles_key_>> >>)
                      ELSE IF roles_key_ = "roles" /\ retired_ /\ Len(active) > 0
                      THEN Ok(<< <<str(Len(active)),
                                   " active roles on retired person">> >>)
                      ELSE IF roles_key_ = "roles" /\ Len(active) > 1
                      THEN Ok(<< <<str(Len(active)), " active roles">> >>)
                      ELSE Ok(<<>>)

(***************************************************************************)
(* get_expected_districts and compare_districts.                           *)
(*                                                                         *)
(* A '<chamber>_seats' setting is a record [kind, n, labels, caps]: kind   *)
(* "int" (n), "bool" (n is 1 for True, 0 for False), "list" (labels),      *)
(* "dict" (caps, a function from district label to capacity), "str" (n is  *)
(* its length), "float" (n is 0 for 0.0) or "none".  A dict keyed by       *)
(* chamber is the sequence of its [key, value] items in insertion order.   *)
(***************************************************************************)
SeatsInt(n) == [kind |-> "int", n |-> n, labels |-> <<>>, caps |-> <<>>]
SeatsBool(b) ==
    [kind |-> "bool", n |-> IF b THEN 1 ELSE 0, labels |-> <<>>, caps |-> <<>>]
SeatsList(l) == [kind |-> "list", n |-> 0, labels |-> l, caps |-> <<>>]
SeatsDict(c) == [kind |-> "dict", n |-> 0, labels |-> <<>>, caps |-> c]
SeatsStr(n) == [kind |-> "str", n |-> n, labels |-> <<>>, caps |-> <<>>]
SeatsFloat(n) == [kind |-> "float", n |-> n, labels |-> <<>>, caps |-> <<>>]
SeatsNone == [kind |-> "none", n |-> 0, labels |-> <<>>, caps |-> <<>>]

\* `not seats`
Falsy(seats) ==
    CASE seats.kind = "none" -> TRUE
      [] seats.kind \in {"int", "bool", "str", "float"} -> seats.n = 0
      [] seats.kind = "list" -> Len(seats.labels) = 0
      [] seats.kind = "dict" -> DOMAIN seats.caps = {}

Item(k, v) == [key |-> k, value |-> v]
DictKeys(d) == {d[i].key : i \in DOMAIN d}
DictGet(d, k) == d[CHOOSE i \in DOMAIN d : d[i].key = k].value
Returns(v) == [exc |-> "", value |-> v]
Raises(e) == [exc |-> e, value |-> <<>>]

CHAMBERS == <<"upper", "lower", "legislature">>
\* key + '_seats'
SeatsKey(key) ==
    CASE key = "upper" -> "upper_seats"
      [] key = "lower" -> "lower_seats"
      [] key = "legislature" -> "legislature_seats"
\* settings.get(key + '_seats')
SeatsOf(settings_, key) ==
    IF SeatsKey(key) \in DOMAIN settings_ THEN settings_[SeatsKey(key)]
    ELSE SeatsNone

\* isinstance(seats, int): bool is a subclass of int
IsInt(seats) == seats.kind \in {"int", "bool"}

\* the value get_expected_districts stores for a chamber
ExpectedOfRange0(seats) ==
    CASE IsInt(seats) -> [d \in {str(sn) : sn \in 0..(seats.n - 1)} |-> 1]
      [] seats.kind = "list" ->
            [d \in {seats.labels[i] : i \in DOMAIN seats.labels} |-> 1]
      [] seats.kind = "dict" -> seats.caps
ExpectedOf(seats) ==
    CASE IsInt(seats) -> [d \in {str(sn) : sn \in 1..seats.n} |-> 1]
      [] seats.kind = "list" ->
            [d \in {seats.labels[i] : i \in DOMAIN seats.labels} |-> 1]
      [] seats.kind = "dict" -> seats.caps

get_expected_districts(settings_) ==
    LET used == SelectSeq(CHAMBERS, LAMBDA key : ~Falsy(SeatsOf(settings_, key)))
    IN  IF \E i \in DOMAIN used :
              ~IsInt(SeatsOf(settings_, used[i]))
              /\ SeatsOf(settings_, used[i]).kind \notin {"list", "dict"}
        THEN Raises("ValueError")
        ELSE Returns([i \in DOMAIN used |->
                        Item(used[i], ExpectedOf(SeatsOf(settings_, used[i])))])

\* sorted(): the district labels in the order of Python's string comparison
SortedLabels == <<"1", "10", "2", "3", "4", "5", "6", "7", "8", "9",
                  "A", "At-Large", "B", "C">>
sorted(S) == SelectSeq(SortedLabels, LAMBDA d : d \in S)

\* utils.get_filename: the label naming the record's file
get_filename(o) == <<o.name, "-", o.id, ".yml">>

\* the join naming the first occupant alone
JoinFilenames_FirstOnly(occupants) ==
    IF Len(occupants) = 0 THEN <<>> ELSE get_filename(occupants[1])

\* '\n\t'.join(get_filename(o) for o in occupants)
RECURSIVE JoinFilenames(_)
JoinFilenames(occupants) ==
    IF Len(occupants) = 0 THEN <<>>
    ELSE IF Len(occupants) = 1 THEN get_filename(occupants[1])
    ELSE get_filename(occupants[1]) \o <<"\n\t">> \o JoinFilenames(Tail(occupants))

\* f'{d.keys()}'
RECURSIVE JoinKeys(_)
JoinKeys(d) ==
    IF Len(d) = 0 THEN <<>>
    ELSE IF Len(d) = 1 THEN <<d[1].key>>
    ELSE <<d[1].key, ", ">> \o JoinKeys(Tail(d))
KeysRepr(d) == <<"dict_keys([">> \o JoinKeys(d) \o <<"])">>

\* the messages of one chamber with `<=` for `<` in the under-filled test
ChamberMessages_LessEqual(chamber, expected_c, actual_c) ==
    LET expected_districts == DOMAIN expected_c
        actual_districts == DOMAIN actual_c
        missing == sorted(expected_districts \ actual_districts)
        extra == sorted(actual_districts \ expected_districts)
        both == sorted(actual_districts \cap expected_districts)
        under == SelectSeq(both, LAMBDA d : Len(actual_c[d]) <= expected_c[d])
        over == SelectSeq(both, LAMBDA d : Len(actual_c[d]) > expected_c[d])
    IN  [errors |->
            [i \in DOMAIN extra |->
                <<"extra legislator for unexpected seat ", chamber, " ", extra[i]>>]
            \o [i \in DOMAIN over |->
                <<"extra legislator for ", chamber, " ", over[i], ":\n\t">>
                    \o JoinFilenames(actual_c[over[i]])],
         warnings |->
            [i \in DOMAIN missing |->
                <<"missing legislator for ", chamber, " ", missing[i]>>]
            \o [i \in DOMAIN under |->
                <<"missing legislator for ", chamber, " ", under[i]>>]]

\* the (errors, warnings) one chamber adds
ChamberMessages(chamber, expected_c, actual_c) ==
    LET expected_districts == DOMAIN expected_c
        actual_districts == DOMAIN actual_c
        missing == sorted(expected_districts \ actual_districts)
        extra == sorted(actual_districts \ expected_districts)
        both == sorted(actual_districts \cap expected_districts)
        under == SelectSeq(both, LAMBDA d : Len(actual_c[d]) < expected_c[d])
        over == SelectSeq(both, LAMBDA d : Len(actual_c[d]) > expected_c[d])
    IN  [errors |->
            [i \in DOMAIN extra |->
                <<"extra legislator for unexpected seat ", chamber, " ", extra[i]>>]
            \o [i \in DOMAIN over |->
                <<"extra legislator for ", chamber, " ", over[i], ":\n\t">>
                    \o JoinFilenames(actual_c[over[i]])],
         warnings |->
            [i \in DOMAIN missing |->
                <<"missing legislator for ", chamber, " ", missing[i]>>]
            \o [i \in DOMAIN under |->
                <<"missing legislator for ", chamber, " ", under[i]>>]]

\* actual[chamber] of the defaultdict: a chamber not recorded has no district
Occupancy(actual_, chamber) ==
    IF chamber \in DictKeys(actual_) THEN DictGet(actual_, chamber) ELSE <<>>

\* compare_districts without the return that follows the chamber error
compare_districts_NoReturn(expected_, actual_) ==
    LET per == [i \in DOMAIN expected_ |->
                   ChamberMessages(expected_[i].key, expected_[i].value,
                                   Occupancy(actual_, expected_[i].key))]
        first == IF DictKeys(expected_) # DictKeys(actual_)
                 THEN << <<"expected districts for ">> \o KeysRepr(expected_)
                            \o <<", got ">> \o KeysRepr(actual_) >>
                 ELSE <<>>
    IN  [errors |-> first \o Concat([i \in DOMAIN per |-> per[i].errors]),
         warnings |-> Concat([i \in DOMAIN per |-> per[i].warnings])]

compare_districts(expected_, actual_) ==
    IF DictKeys(expected_) # DictKeys(actual_)
    THEN [errors |-> << <<"expected districts for ">> \o KeysRepr(expected_)
                           \o <<", got ">> \o KeysRepr(actual_) >>,
          warnings |-> <<>>]
    ELSE LET per == [i \in DOMAIN expected_ |->
                        ChamberMessages(expected_[i].key, expected_[i].value,
                                        DictGet(actual_, expected_[i].key))]
         IN  [errors |-> Concat([i \in DOMAIN per |-> per[i].errors]),
              warnings |-> Concat([i \in DOMAIN per |-> per[i].warnings])]

(***************************************************************************)
(* The Validator.  Its state is the record of the fields __init__ sets     *)
(* (self.expected is the variable expected).  errors, warnings,            *)
(* person_mapping and the counters are functions from keys; the ordered    *)
(* active_legislators is the sequence of its [key, value] items, value a   *)
(* function from district to the list of persons.  A method returns        *)
(* [exc, v]: the exception it raised, if any, and the state it leaves.     *)
(***************************************************************************)
Get(m, k, default) == IF k \in DOMAIN m THEN m[k] ELSE default
Put(m, k, x) == [j \in DOMAIN m \cup {k} |-> IF j = k THEN x ELSE m[j]]
\* counter[k] += 1
Inc(counter, k) == Put(counter, k, Get(counter, k, 0) + 1)
RECURSIVE IncAll(_, _)
IncAll(counter, ks) ==
    IF Len(ks) = 0 THEN counter ELSE IncAll(Inc(counter, ks[1]), Tail(ks))

Good(v) == [exc |-> "", v |-> v]
Bad(e, v) == [exc |-> e, v |-> v]
\* the next statement, run unless an exception was raised before it
Then(s, f(_)) == IF s.exc # "" THEN s ELSE f(s.v)

\* a value used as a dict key: None prints as None, a string as its text
KeyOf(value) == IF value.kind = "none" THEN "None" ELSE value.text
Unhashable(value) == value.kind \in {"dict", "list"}
\* `not value`
ValueFalsy(value) ==
    CASE value.kind = "none" -> TRUE
      [] value.kind = "str" -> value.text = ""
      [] value.kind = "int" -> value.text = "0"
      [] value.kind = "list" -> value.items = <<>>
      [] value.kind = "dict" -> Keys(value) = {}
      [] OTHER -> FALSE
\* obj.get(key, default)
GetField(o, key, default) == IF Has(o, key) THEN o.fields[key] ELSE default

Validator ==
    [errors |-> <<>>, warnings |-> <<>>,
     person_count |-> 0, retired_count |-> 0, org_count |-> 0,
     missing_person_id |-> 0, role_types |-> <<>>, parent_types |-> <<>>,
     person_mapping |-> <<>>, parties |-> <<>>, contact_counts |-> <<>>,
     id_counts |-> <<>>, optional_fields |-> <<>>, extra_counts |-> <<>>,
     active_legislators |-> <<>>]

OPTIONAL_FIELD_SET ==
    {"sort_name", "given_name", "family_name", "gender", "summary", "biography",
     "birth_date", "death_date", "image", "links", "other_names", "sources"}

\* the index of the first element of s that satisfies Test, Len(s) + 1 if none
FirstIndex(s, Test(_)) ==
    IF \E i \in DOMAIN s : Test(s[i])
    THEN CHOOSE i \in DOMAIN s : Test(s[i]) /\ \A j \in 1..(i - 1) : ~Test(s[j])
    ELSE Len(s) + 1

\* self.active_legislators[role_type][district].append(person)
AppendLegislator(al, role_type, district, person) ==
    IF role_type \in DictKeys(al)
    THEN [i \in DOMAIN al |->
            IF al[i].key = role_type
            THEN Item(role_type,
                      Put(al[i].value, district,
                          Get(al[i].value, district, <<>>) \o <<person>>))
            ELSE al[i]]
    ELSE al \o <<Item(role_type, [d \in {district} |-> <<person>>])>>

\* extra_counts.update(person.get('extras', {}).keys())
SummarizeExtras(v, person) ==
    LET extras == GetField(person, "extras", EmptyDict)
    IN  IF extras.kind # "dict" THEN Bad("AttributeError", v)
        ELSE Good([v EXCEPT !.extra_counts = IncAll(@, SeqOfSet(Keys(extras)))])

\* the role loop: the first active role gives the chamber and the district, and
\* the person is appended whether or not there is one
SummarizeRoles(v, person) ==
    LET roles == Enumerate(GetField(person, "roles", List(<<>>)))
        active == SelectSeq(roles.errors, role_is_active)
    IN  IF roles.exc # "" THEN Bad(roles.exc, v)
        ELSE IF active # <<>> /\ ~Has(active[1], "type") THEN Bad("KeyError", v)
        ELSE LET role_type == IF active = <<>> THEN None
                              ELSE active[1].fields["type"]
                 district == IF active = <<>> THEN None
                             ELSE GetField(active[1], "district", None)
             IN  IF Unhashable(role_type) \/ Unhashable(district)
                 THEN Bad("TypeError", v)
                 ELSE Good([v EXCEPT !.active_legislators =
                              AppendLegislator(@, KeyOf(role_type),
                                               KeyOf(district), person)])

\* self.parties[role['name']] += 1 for every active party entry
SummarizeParty(v, person) ==
    LET party == Enumerate(GetField(person, "party", List(<<>>)))
        active == SelectSeq(party.errors, role_is_active)
        k == FirstIndex(active, LAMBDA role : ~Has(role, "name"))
        counted == [i \in 1..(k - 1) |-> KeyOf(active[i].fields["name"])]
    IN  IF party.exc # "" THEN Bad(party.exc, v)
        ELSE LET w == [v EXCEPT !.parties = IncAll(@, counted)]
             IN  IF k <= Len(active) THEN Bad("KeyError", w) ELSE Good(w)

\* self.contact_counts[key] += 1 for every key but 'note' of every contact
SummarizeContacts(v, person) ==
    LET cds == Enumerate(GetField(person, "contact_details", List(<<>>)))
        keys == [i \in DOMAIN cds.errors |->
                    SeqOfSet(Keys(cds.errors[i]) \ {"note"})]
    IN  IF cds.exc # "" THEN Bad(cds.exc, v)
        ELSE Good([v EXCEPT !.contact_counts = IncAll(@, Concat(keys))])

\* self.id_counts[scheme] += 1 for the schemes of 'ids', then for the scheme of
\* every entry of 'other_identifiers'
SummarizeIds(v, person) ==
    LET ids == Enumerate(GetField(person, "ids", EmptyDict))
        others == Enumerate(GetField(person, "other_identifiers", List(<<>>)))
        k == FirstIndex(others.errors, LAMBDA id : ~Has(id, "scheme"))
        counted == [i \in 1..(k - 1) |-> KeyOf(others.errors[i].fields["scheme"])]
    IN  IF ids.exc # "" THEN Bad(ids.exc, v)
        ELSE LET w == [v EXCEPT !.id_counts =
                        IncAll(@, [i \in DOMAIN ids.errors |-> ids.errors[i].text])]
             IN  IF others.exc # "" THEN Bad(others.exc, w)
                 ELSE LET x == [w EXCEPT !.id_counts = IncAll(@, counted)]
                      IN  IF k <= Len(others.errors) THEN Bad("KeyError", x)
                          ELSE Good(x)

summarize_person(v, person) ==
    LET s1 == Good([v EXCEPT
                      !.person_count = @ + 1,
                      !.optional_fields =
                          IncAll(@, SeqOfSet(Keys(person) \cap OPTIONAL_FIELD_SET))])
        s2 == Then(s1, LAMBDA w : SummarizeExtras(w, person))
        s3 == Then(s2, LAMBDA w : SummarizeRoles(w, person))
        s4 == Then(s3, LAMBDA w : SummarizeParty(w, person))
        s5 == Then(s4, LAMBDA w : SummarizeContacts(w, person))
    IN  Then(s5, LAMBDA w : SummarizeIds(w, person))

validate_person(v, person, filename, retired_, ord) ==
    LET r1 == validate_obj(person, PERSON_FIELDS, <<>>, ord)
        r2 == validate_roles(person, "roles", retired_)
        r3 == validate_roles(person, "party", FALSE)
        v1 == [v EXCEPT !.errors = Put(@, filename, r1.errors)]
        v2 == [v1 EXCEPT !.errors = Put(@, filename, @[filename] \o r2.errors)]
        v3 == [v2 EXCEPT !.errors = Put(@, filename, @[filename] \o r3.errors)]
        v4 == [v3 EXCEPT !.person_mapping =
                 Put(@, person.fields["id"], person.fields["name"])]
    IN  IF r1.exc # "" THEN Bad(r1.exc, v)
        ELSE IF r2.exc # "" THEN Bad(r2.exc, v1)
        ELSE IF r3.exc # "" THEN Bad(r3.exc, v2)
        ELSE IF ~Has(person, "name") \/ ~Has(person, "id") THEN Bad("KeyError", v3)
        ELSE IF Unhashable(person.fields["id"]) THEN Bad("TypeError", v3)
        ELSE IF retired_ THEN Good([v4 EXCEPT !.retired_count = @ + 1])
        ELSE summarize_person(v4, person)

\* the membership loop with the name test left out: an id that is registered is
\* accepted whatever the name
CheckMembership_IdOnly(person_mapping, m) ==
    LET id == GetField(m, "id", None)
        none == [exc |-> "", errors |-> <<>>, warnings |-> <<>>]
    IN  IF m.kind # "dict" THEN [none EXCEPT !.exc = "AttributeError"]
        ELSE IF ValueFalsy(id) THEN none
        ELSE IF Unhashable(id) THEN [none EXCEPT !.exc = "TypeError"]
        ELSE IF id \notin DOMAIN person_mapping
        THEN [none EXCEPT !.errors = << <<"invalid person ID ", KeyOf(id)>> >>]
        ELSE none

\* one iteration of the membership loop of validate_org
CheckMembership(person_mapping, m) ==
    LET id == GetField(m, "id", None)
        none == [exc |-> "", errors |-> <<>>, warnings |-> <<>>]
    IN  IF m.kind # "dict" THEN [none EXCEPT !.exc = "AttributeError"]
        ELSE IF ValueFalsy(id) THEN none
        ELSE IF Unhashable(id) THEN [none EXCEPT !.exc = "TypeError"]
        ELSE IF id \notin DOMAIN person_mapping
        THEN [none EXCEPT !.errors = << <<"invalid person ID ", KeyOf(id)>> >>]
        ELSE IF ~Has(m, "name") THEN [none EXCEPT !.exc = "KeyError"]
        ELSE IF person_mapping[id] # m.fields["name"]
        THEN [none EXCEPT !.warnings =
                << <<"ID ", KeyOf(id), " refers to ", KeyOf(person_mapping[id]),
                     ", not ", KeyOf(m.fields["name"])>> >>]
        ELSE none

summarize_org(v, org) ==
    LET v1 == [v EXCEPT !.org_count = @ + 1]
        parent == org.fields["parent"]
        v2 == [v1 EXCEPT !.parent_types =
                 Inc(@, IF parent.text \in StartsWithOcdOrganization
                        THEN "subcommittee" ELSE parent.text)]
        ms == org.fields["memberships"].items
        noid == SelectSeq(ms, LAMBDA m : ValueFalsy(GetField(m, "id", None)))
        active == SelectSeq(ms, role_is_active)
    IN  IF ~Has(org, "parent") THEN Bad("KeyError", v1)
        ELSE IF parent.kind # "str" THEN Bad("AttributeError", v1)
        ELSE Good([v2 EXCEPT
                     !.missing_person_id = @ + Len(noid),
                     !.role_types =
                         IncAll(@, [i \in DOMAIN active |->
                                      KeyOf(GetField(active[i], "role",
                                                     StrVal("member")))])])

validate_org(v, org, filename, ord) ==
    LET r1 == validate_obj(org, ORGANIZATION_FIELDS, <<>>, ord)
        v1 == [v EXCEPT !.errors = Put(@, filename, r1.errors)]
        ms == Enumerate(org.fields["memberships"])
        checks == [i \in DOMAIN ms.errors |->
                      CheckMembership(v.person_mapping, ms.errors[i])]
        k == FirstIndex(checks, LAMBDA c : c.exc # "")
        errs == Concat([i \in 1..(k - 1) |-> checks[i].errors])
        warns == Concat([i \in 1..(k - 1) |-> checks[i].warnings])
        v2 == [v1 EXCEPT
                 !.errors = Put(@, filename, @[filename] \o errs),
                 !.warnings =
                     IF warns = <<>> THEN @
                     ELSE Put(@, filename, Get(@, filename, <<>>) \o warns)]
    IN  IF r1.exc # "" THEN Bad(r1.exc, v)
        ELSE IF ~Has(org, "memberships") THEN Bad("KeyError", v1)
        ELSE IF ms.exc # "" THEN Bad(ms.exc, v1)
        ELSE IF k <= Len(checks) THEN Bad(checks[k].exc, v2)
        ELSE summarize_org(v2, org)

\* the occupants as compare_districts reads them: get_filename uses the id and
\* the name of a person
Occupant(person) ==
    [id |-> person.fields["id"].text, name |-> person.fields["name"].text]
OccupantsOf(al) ==
    [i \in DOMAIN al |->
        Item(al[i].key,
             [d \in DOMAIN al[i].value |->
                [j \in DOMAIN al[i].value[d] |-> Occupant(al[i].value[d][j])]])]

\* print_validation_report: reading self.warnings[fn] for every file with an
\* errors entry creates the entry
ReportWarnings(v) ==
    [v EXCEPT !.warnings =
        [fn \in DOMAIN v.errors \cup DOMAIN v.warnings |-> Get(v.warnings, fn, <<>>)]]

(***************************************************************************)
(* Inputs: the records, schemas and set orders the calls are drawn from.   *)
(***************************************************************************)
Missing == [kind |-> "missing", text |-> "", fields |-> <<>>, items |-> <<>>]

\* the mapping holding the fields of f whose value is not Missing
Record(f) == Dict([k \in {x \in DOMAIN f : f[x] # Missing} |-> f[k]])
Records(fs) == {Record(f) : f \in fs}
With(b, key, v) == [k \in DOMAIN b \cup {key} |-> IF k = key THEN v ELSE b[k]]
ListsUpTo(S, n) == {List(s) : s \in UNION {[1..k -> S] : k \in 0..n}}

\* the keys the records carry outside their schema
UndeclaredKeys == {"junk", "bad", "district"}
SetOrders ==
    {s \in [1..Cardinality(UndeclaredKeys) -> UndeclaredKeys] :
        \A i, j \in DOMAIN s : i # j => s[i] # s[j]}

Absent == {Missing}
Hundred == IntVal("100")
UrlElements ==
    Records([url : {Missing, StrVal("https://example.com"), StrVal("example.com")},
             note : Absent, bad : {Missing, Hundred}])
    \cup {Record([note |-> StrVal("note only")])}
ContactLists ==
    {List(<<EmptyDict>>), List(<<Record([note |-> StrVal("Capitol Office")])>>)}
RoleElements ==
    Records([type : {Missing, StrVal("upper"), StrVal("gov"), StrVal("mayor")},
             district : {Missing, StrVal("4")},
             jurisdiction : {StrVal(GOOD_JURISDICTION)},
             contact_details : Absent])
    \cup Records([type : {StrVal("lower"), StrVal("lt_gov"), StrVal("mayor")},
                  district : {StrVal("4")},
                  jurisdiction : Absent,
                  contact_details : ContactLists])
IdsObjects ==
    Records([twitter : {Missing, StrVal("is-ok"), StrVal("@bad-name")},
             youtube : {Missing, StrVal("is-ok")},
             junk : {Missing, Hundred}])

\* person records: the scalar fields alone, then one nested field at a time
PersonScalars ==
    Records([id : {Missing, StrVal(GOOD_PERSON_ID), StrVal("ocd-person/1")},
             name : {Missing, StrVal("Anne A"), StrVal("line1\nline2")},
             image : {Missing, StrVal("https://example.com"), Hundred},
             junk : {Missing, Hundred}, bad : {Missing, Hundred}])
PersonBase ==
    [id : {Missing, StrVal(GOOD_PERSON_ID)}, name : {StrVal("Anne A")},
     junk : {Missing, Hundred}]
PersonNested ==
    Records({With(b, "links", v) :
                b \in PersonBase, v \in ListsUpTo(UrlElements, MaxItems)})
    \cup Records({With(b, "ids", v) : b \in PersonBase, v \in IdsObjects})
    \cup Records({With(b, "roles", v) :
                b \in PersonBase, v \in ListsUpTo(RoleElements, MaxItems)})
\* values of the wrong type where a mapping or a list is declared
PersonMalformed ==
    Records({With(b, "ids", v) :
                b \in PersonBase, v \in {StrVal("is-ok"), None}})
    \cup Records({With(b, "links", v) :
                b \in PersonBase,
                v \in {None, StrVal(""), StrVal("https://example.com"),
                       EmptyDict, Record([url |-> StrVal("https://example.com")])}})
    \cup Records({With(b, "roles", v) :
                b \in PersonBase, v \in {List(<<StrVal("upper")>>), Hundred}})
PersonRecords == PersonScalars \cup PersonNested \cup PersonMalformed

OrganizationRecords ==
    Records([id : {Missing, StrVal(GOOD_ORG_ID)},
             name : {StrVal("Finance Committee")},
             jurisdiction : {StrVal(GOOD_JURISDICTION)},
             parent : {Missing, StrVal("lower"), StrVal("joint")},
             classification : {StrVal("committee")},
             memberships :
                {Missing}
                \cup ListsUpTo(Records([id : {Missing, StrVal(GOOD_PERSON_ID)},
                                        name : {Missing, StrVal("Jane Smith")}]),
                               1)])

\* a schema of a caller that nests mappings and lists more than one level deep
OFFICE_FIELDS == <<
    F("name", Leaf(<<"is_string", Required>>)),
    F("office", Object(<<
        F("address", Object(<<
            F("city", Leaf(<<"is_string", Required>>)) >>)),
        F("phones", NestedList(<<
            F("voice", Leaf(<<"is_phone", Required>>)),
            F("hours", Object(<<
                F("open", Leaf(<<"is_string">>)) >>)) >>)) >>)),
    F("staff", NestedList(<<
        F("name", Leaf(<<"is_string", Required>>)),
        F("links", URL_LIST) >>)) >>
AddressObjects ==
    Records([city : {Missing, StrVal("Raleigh"), StrVal("line1\nline2")},
             junk : {Missing, Hundred}])
PhoneElements ==
    Records([voice : {Missing, StrVal("123-346-7990")},
             hours : {Missing, EmptyDict, Record([open |-> StrVal("9-5")]),
                      Record([open |-> Hundred]), Record([junk |-> Hundred])}])
StaffElements ==
    Records([name : {Missing, StrVal("Bo B")},
             links : {Missing}
                     \cup ListsUpTo({EmptyDict,
                                     Record([url |-> StrVal("https://example.com")]),
                                     Record([url |-> StrVal("example.com"),
                                             bad |-> Hundred])}, 1)])
OfficeObjects ==
    {EmptyDict}
    \cup Records([address : AddressObjects, junk : {Missing, Hundred}])
    \cup Records([phones : ListsUpTo(PhoneElements, MaxItems)])
OfficeRecords ==
    Records([name : {Missing, StrVal("Anne A")}, office : OfficeObjects])
    \cup Records([name : {StrVal("Anne A")},
                  staff : ListsUpTo(StaffElements, MaxItems)])

\* a schema of a caller with nodes of a shape validate_obj does not know, at the
\* top level and one level down
NICKNAME_FIELDS == <<
    F("name", Leaf(<<"is_string", Required>>)),
    F("nick", Bare("is_string")),
    F("office", Object(<<
        F("fax", Bare("is_phone")) >>)) >>
NicknameRecords ==
    Records([name : {Missing, StrVal("Anne A")},
             nick : {Missing, StrVal("Annie"), Hundred},
             office : {Missing, EmptyDict,
                       Record([fax |-> StrVal("123-346-7990")])},
             junk : {Missing, Hundred}])

SchemaNames ==
    {"PERSON_FIELDS", "ORGANIZATION_FIELDS", "OFFICE_FIELDS", "NICKNAME_FIELDS"}
SchemaOf(name) ==
    CASE name = "PERSON_FIELDS" -> PERSON_FIELDS
      [] name = "ORGANIZATION_FIELDS" -> ORGANIZATION_FIELDS
      [] name = "OFFICE_FIELDS" -> OFFICE_FIELDS
      [] name = "NICKNAME_FIELDS" -> NICKNAME_FIELDS
RecordsOf(name) ==
    CASE name = "PERSON_FIELDS" -> PersonRecords
      [] name = "ORGANIZATION_FIELDS" -> OrganizationRecords
      [] name = "OFFICE_FIELDS" -> OfficeRecords
      [] name = "NICKNAME_FIELDS" -> NicknameRecords

\* the roles is_role is called with directly
RoleRecords ==
    RoleElements
    \cup Records([type : {Missing, StrVal("legislature"), StrVal("lt_gov"),
                          StrVal("mayor"), Hundred, None},
                  district : {Missing, Hundred},
                  end_date : {Missing, StrVal("1/1/2011")},
                  junk : {Missing, Hundred}])
    \cup {StrVal("upper")}

\* the persons validate_roles is called with: the roles or party list alone
DatedElements ==
    {Record([name |-> StrVal("House")]),
     Record([name |-> StrVal("House"), end_date |-> StrVal("1990")]),
     Record([name |-> StrVal("Senate"), end_date |-> StrVal("2999")]),
     Record([name |-> StrVal("Senate"), start_date |-> StrVal("2999")])}
RolesPersons ==
    {Dict([k \in {key} |-> l]) :
        key \in {"roles", "party"}, l \in ListsUpTo(DatedElements, MaxRoles)}
    \cup {EmptyDict, Record([roles |-> None, party |-> None])}

\* the settings get_expected_districts is called with
DistrictLabels == {"A", "B"}
SeatsValues ==
    {SeatsNone, SeatsBool(TRUE), SeatsBool(FALSE), SeatsStr(0), SeatsStr(1),
     SeatsFloat(0), SeatsFloat(1)}
    \cup {SeatsInt(n) : n \in (0 - 1)..MaxSeats}
    \cup {SeatsList(l) : l \in UNION {[1..k -> DistrictLabels] : k \in 0..2}}
    \cup {SeatsDict(c) :
            c \in UNION {[D -> 1..2] : D \in SUBSET DistrictLabels}}
SeatsAbsent == [kind |-> "absent", n |-> 0, labels |-> <<>>, caps |-> <<>>]
KeyIf(k, v) == IF v # SeatsAbsent THEN {k} ELSE {}
Settings(ups, los, les) ==
    {[k \in KeyIf("upper_seats", u) \cup KeyIf("lower_seats", l)
            \cup KeyIf("legislature_seats", g) |->
        CASE k = "upper_seats" -> u
          [] k = "lower_seats" -> l
          [] k = "legislature_seats" -> g] :
     u \in ups, l \in los, g \in les}
SettingsValues ==
    Settings({SeatsAbsent} \cup SeatsValues,
             {SeatsAbsent, SeatsInt(2), SeatsList(<<"A">>), SeatsStr(1)},
             {SeatsAbsent, SeatsDict([d \in {"At-Large"} |-> 3])})

\* the expectations and occupancies compare_districts is called with
Person(i) == [id |-> <<"ocd-person/1", "ocd-person/2", "ocd-person/3",
                       "ocd-person/4">>[i],
              name |-> <<"Anne", "Bob", "Cy", "Di">>[i]]
Occupants == {[i \in 1..n |-> Person(i)] : n \in 0..MaxOccupants}
ChamberOccupancies(labels) ==
    UNION {[D -> Occupants] : D \in SUBSET labels}
CompareSettings ==
    Settings({SeatsAbsent, SeatsInt(2), SeatsList(<<"A">>),
              SeatsDict([d \in {"1", "A"} |-> IF d = "A" THEN 2 ELSE 1]),
              SeatsDict([d \in {"1", "A"} |-> IF d = "1" THEN 2 ELSE 1])},
             {SeatsAbsent, SeatsInt(1)}, {SeatsAbsent})
Chamber(k, v) == <<Item(k, v)>>
Occupancies ==
    {u \o g \o l :
        u \in {<<>>} \cup {Chamber("upper", c) :
                              c \in ChamberOccupancies({"1", "4", "A"})},
        g \in {<<>>, Chamber("gov", [d \in {"None"} |-> <<Person(4)>>])},
        l \in {<<>>, Chamber("lower", <<>>),
               Chamber("lower", [d \in {"1"} |-> <<Person(3)>>])}}

\* the files process_dir finds: [filename, data], data the record yaml.load gives
File(fn, data) == [filename |-> fn, data |-> data]
FileLists(menu, names, n) ==
    UNION {{[i \in 1..k |-> File(names[i], s[i])] : s \in [1..k -> menu]} :
            k \in 0..n}
NoFiles == [people |-> <<>>, retired |-> <<>>, organizations |-> <<>>]

LegislativeRole(type, district) ==
    Record([type |-> StrVal(type), district |-> StrVal(district),
            jurisdiction |-> StrVal(GOOD_JURISDICTION)])
Ended(role) == Dict(With(role.fields, "end_date", StrVal("2010")))
PartyEntry(name) == Record([name |-> StrVal(name)])

\* a senator of district 1, with the optional fields the summary counts
Anne ==
    Record([id |-> StrVal(GOOD_PERSON_ID), name |-> StrVal("Anne A"),
            image |-> StrVal("https://example.com"),
            roles |-> List(<<LegislativeRole("upper", "1")>>),
            party |-> List(<<PartyEntry("Democratic")>>),
            contact_details |->
                List(<<Record([note |-> StrVal("Capitol Office"),
                               voice |-> StrVal("123-346-7990")])>>),
            ids |-> Record([twitter |-> StrVal("is-ok")]),
            extras |-> Record([seniority |-> StrVal("2010")])])
\* a second senator of district 1
Bob ==
    Record([id |-> StrVal(SECOND_PERSON_ID), name |-> StrVal("Bob B"),
            roles |-> List(<<LegislativeRole("upper", "1")>>),
            party |-> List(<<PartyEntry("Republican")>>),
            other_identifiers |->
                List(<<Record([scheme |-> StrVal("votesmart"),
                               identifier |-> StrVal("123")])>>)])
\* the governor: an active executive role
Cy ==
    Record([id |-> StrVal("ocd-person/1"), name |-> StrVal("Cy C"),
            roles |-> List(<<Record([type |-> StrVal("gov"),
                                     jurisdiction |-> StrVal(GOOD_JURISDICTION)])>>),
            party |-> List(<<PartyEntry("Democratic")>>)])
\* a former representative: no active role, no active party
Di ==
    Record([id |-> StrVal("ocd-person/2"), name |-> StrVal("Di D"),
            roles |-> List(<<Ended(LegislativeRole("lower", "1"))>>),
            party |-> List(<<Ended(PartyEntry("Democratic"))>>)])
\* a record without id
Ed ==
    Record([name |-> StrVal("Ed E"),
            roles |-> List(<<LegislativeRole("upper", "2")>>),
            party |-> List(<<PartyEntry("Republican")>>)])
\* two active roles
Flo ==
    Record([id |-> StrVal("ocd-person/3"), name |-> StrVal("Flo F"),
            roles |-> List(<<LegislativeRole("upper", "2"),
                             LegislativeRole("lower", "1")>>),
            party |-> List(<<PartyEntry("Republican")>>)])
PeopleMenu == {Anne, Bob, Cy, Di, Ed, Flo}
RetiredMenu == {Bob, Di}

Member(id, name) == Record([id |-> id, name |-> name])
Committee(memberships) ==
    [id |-> StrVal(GOOD_ORG_ID), name |-> StrVal("Finance Committee"),
     jurisdiction |-> StrVal(GOOD_JURISDICTION), parent |-> StrVal("lower"),
     classification |-> StrVal("committee"), memberships |-> memberships]
OrgMenu ==
    Records({
        Committee(List(<<Member(StrVal(GOOD_PERSON_ID), StrVal("Anne A")),
                         Member(StrVal(SECOND_PERSON_ID), StrVal("Bob B")),
                         Member(Missing, StrVal("Gil G"))>>)),
        Committee(List(<<Member(StrVal(GOOD_PERSON_ID), StrVal("Annie")),
                         Member(StrVal("ocd-person/2"), StrVal("Di D")),
                         Member(StrVal(SECOND_PERSON_ID), StrVal("Bob B")),
                         Member(StrVal(SECOND_PERSON_ID), StrVal("Bob B"))>>)),
        Committee(List(<<Member(StrVal(""), StrVal("Hal H")),
                         Member(StrVal(SECOND_PERSON_ID), StrVal("Robert B")),
                         Member(StrVal(GOOD_PERSON_ID), Missing)>>)),
        With(Committee(List(<<Member(StrVal(GOOD_PERSON_ID), StrVal("Anne A"))>>)),
             "parent", Missing),
        Committee(Missing)})

PeopleNames == <<"a.yml", "b.yml", "c.yml", "d.yml">>
FilesValues ==
    [people : FileLists(PeopleMenu, PeopleNames, MaxFiles),
     retired : FileLists(RetiredMenu, <<"r.yml">>, 1),
     organizations : FileLists(OrgMenu, <<"o.yml">>, 1)]
\* settings[abbr]: two single-member senate districts
ProcessSettings == Settings({SeatsInt(2)}, {SeatsAbsent}, {SeatsAbsent})

(***************************************************************************)
(* to_database.  A YAML record is here the function from its keys to its   *)
(* values: a string, a sequence of records or a record.  The database is   *)
(* the record of its tables: Person and Organization are functions from    *)
(* the primary key to the row, Post is the set of (organization, label)    *)
(* pairs, every related table is the sequence of its rows; a row is the    *)
(* function from column to value, a foreign key holds the primary key it   *)
(* refers to and NULL is the string "None".  The column saves counts the   *)
(* times the row was saved (its updated_at).  A call returns [exc, db]:    *)
(* the exception it raised, if any, and the database it leaves.            *)
(***************************************************************************)
Merge(base, over) ==
    [k \in DOMAIN base \cup DOMAIN over |->
        IF k \in DOMAIN over THEN over[k] ELSE base[k]]
Saved(row) ==
    [k \in DOMAIN row |-> IF k = "saves" THEN row[k] + 1 ELSE row[k]]

\* the columns of the models and their default values
PersonDefaults ==
    [id |-> "", name |-> "", given_name |-> "", family_name |-> "",
     gender |-> "", biography |-> "", birth_date |-> "", death_date |-> "",
     image |-> "", extras |-> <<>>, saves |-> 0]
OrganizationDefaults ==
    [id |-> "", name |-> "", jurisdiction_id |-> "", classification |-> "",
     founding_date |-> "", dissolution_date |-> "", parent |-> "None", saves |-> 0]
ModelDefaults(ModelCls) ==
    IF ModelCls = "Person" THEN PersonDefaults ELSE OrganizationDefaults
RelatedDefaults(table) ==
    CASE table = "other_names" ->
            [name |-> "", note |-> "", start_date |-> "", end_date |-> ""]
      [] table \in {"links", "sources"} -> [url |-> "", note |-> ""]
      [] table = "identifiers" -> [identifier |-> "", scheme |-> ""]
      [] table = "contact_details" ->
            [type |-> "", value |-> "", note |-> "", label |-> ""]
      [] table = "memberships" ->
            [person |-> "None", person_name |-> "", organization |-> "None",
             post |-> "None", role |-> "", label |-> "", start_date |-> "",
             end_date |-> ""]
\* the table behind getattr(owner, fieldname) and its column for the owner
TableOf(ModelCls, fieldname) ==
    IF fieldname = "memberships" THEN "memberships"
    ELSE IF ModelCls = "Person" THEN "person_" \o fieldname
    ELSE "organization_" \o fieldname
OwnerColumn(ModelCls) == IF ModelCls = "Person" THEN "person" ELSE "organization"

EmptyDatabase ==
    [Person |-> <<>>, Organization |-> <<>>, Post |-> {},
     person_other_names |-> <<>>, person_links |-> <<>>, person_sources |-> <<>>,
     person_identifiers |-> <<>>, person_contact_details |-> <<>>,
     organization_links |-> <<>>, organization_sources |-> <<>>,
     memberships |-> <<>>]

Committed(d) == [exc |-> "", db |-> d]
Failed(e, d) == [exc |-> e, db |-> d]
\* person.memberships.exclude(organization__classification='committee')
ExcludeCommittee_Nothing(d, row) == TRUE
ExcludeCommittee(d, row) ==
    d.Organization[row["organization"]]["classification"] # "committee"

\* update_subobjects; read_manager excludes the memberships in committees when
\* exclude_committee is set.  Returns [updated, db].
update_subobjects(d, ModelCls, pk, fieldname, objects, exclude_committee) ==
    LET table == TableOf(ModelCls, fieldname)
        column == OwnerColumn(ModelCls)
        rows == d[table]
        Read(row) ==
            /\ row[column] = pk
            /\ exclude_committee => ExcludeCommittee(d, row)
        Match(row, obj_) == \A k \in DOMAIN obj_ : row[k] = obj_[k]
        current_count == Len(SelectSeq(rows, Read))
        updated ==
            \/ current_count # Len(objects)
            \/ \E i \in DOMAIN objects :
                  Len(SelectSeq(rows, LAMBDA row : Read(row) /\ Match(row, objects[i])))
                      # 1
        kept == SelectSeq(rows, LAMBDA row : ~Read(row))
        created == [i \in DOMAIN objects |->
                      Merge(Merge(RelatedDefaults(fieldname), objects[i]),
                            [k \in {column} |-> pk])]
    IN  IF updated
        THEN [updated |-> TRUE,
              db |-> [d EXCEPT ![table] = kept \o created,
                               ![ModelCls] = [@ EXCEPT ![pk] = Saved(@)]]]
        ELSE [updated |-> FALSE, db |-> d]

\* get_update_or_create.  Returns [created, updated, db].
get_update_or_create(d, ModelCls, data) ==
    IF data["id"] \in DOMAIN d[ModelCls]
    THEN LET row == d[ModelCls][data["id"]]
             updated == \E field \in DOMAIN data : row[field] # data[field]
         IN  [created |-> FALSE, updated |-> updated,
              db |-> IF updated
                     THEN [d EXCEPT ![ModelCls] =
                              [@ EXCEPT ![data["id"]] = Saved(Merge(row, data))]]
                     ELSE d]
    ELSE [created |-> TRUE, updated |-> FALSE,
          db |-> [d EXCEPT ![ModelCls] =
                    Put(@, data["id"],
                        Saved(Merge(ModelDefaults(ModelCls), data)))]]

\* Organization.objects.get(...): the primary keys of the rows that match
OrganizationsWith(d, jurisdiction_id, classification) ==
    {o \in DOMAIN d.Organization :
        /\ d.Organization[o]["jurisdiction_id"] = jurisdiction_id
        /\ d.Organization[o]["classification"] = classification}
Parties(d, name) ==
    {o \in DOMAIN d.Organization :
        /\ d.Organization[o]["classification"] = "party"
        /\ d.Organization[o]["name"] = name}
TheOne(S) == CHOOSE x \in S : TRUE

\* the exception of the first entry that raised one, "" when none did
RECURSIVE FirstExc(_)
FirstExc(outcomes) ==
    IF outcomes = <<>> THEN ""
    ELSE IF Head(outcomes).exc # "" THEN Head(outcomes).exc
    ELSE FirstExc(Tail(outcomes))
\* dict.items() as a list
RECURSIVE Items(_)
Items(m) ==
    IF DOMAIN m = {} THEN <<>>
    ELSE LET k == CHOOSE k \in DOMAIN m : TRUE
         IN  <<[key |-> k, value |-> m[k]]>> \o Items([j \in DOMAIN m \ {k} |-> m[j]])

PostKey(organization, label) == organization \o " " \o label
Entry(row) == [exc |-> "", row |-> row]
NoEntry(e) == [exc |-> e, row |-> <<>>]

PersonFields(data) ==
    [id |-> data["id"],
     name |-> data["name"],
     given_name |-> Get(data, "given_name", ""),
     family_name |-> Get(data, "family_name", ""),
     gender |-> Get(data, "gender", ""),
     biography |-> Get(data, "biography", ""),
     birth_date |-> Get(data, "birth_date", ""),
     death_date |-> Get(data, "death_date", ""),
     image |-> Get(data, "image", ""),
     extras |-> Get(data, "extras", <<>>)]
Identifiers(data) ==
    LET ids == Items(Get(data, "ids", <<>>))
    IN  [i \in DOMAIN ids |-> [scheme |-> ids[i].key, identifier |-> ids[i].value]]
        \o Get(data, "other_identifiers", <<>>)
ContactDetails(data) ==
    LET types == <<"address", "email", "voice", "fax">>
        Of(cd) ==
            LET present == SelectSeq(types, LAMBDA type : Get(cd, type, "") # "")
            IN  [i \in DOMAIN present |->
                    [note |-> Get(cd, "note", ""), type |-> present[i],
                     value |-> cd[present[i]]]]
        cds == Get(data, "contact_details", <<>>)
    IN  Concat([i \in DOMAIN cds |-> Of(cds[i])])
PartyMembership(d, party) ==
    IF "name" \notin DOMAIN party THEN NoEntry("KeyError")
    ELSE LET found == Parties(d, party["name"])
         IN  IF found = {} THEN NoEntry("Organization.DoesNotExist")
             ELSE IF Cardinality(found) > 1
             THEN NoEntry("Organization.MultipleObjectsReturned")
             ELSE Entry([organization |-> TheOne(found),
                         start_date |-> Get(party, "start_date", ""),
                         end_date |-> Get(party, "end_date", "")])
RoleMembership(d, role) ==
    IF "type" \notin DOMAIN role THEN NoEntry("KeyError")
    ELSE IF role["type"] \notin {"upper", "lower", "legislature"}
    THEN NoEntry("ValueError")
    ELSE IF "jurisdiction" \notin DOMAIN role THEN NoEntry("KeyError")
    ELSE LET found == OrganizationsWith(d, role["jurisdiction"], role["type"])
         IN  IF found = {} THEN NoEntry("CancelTransaction")
             ELSE IF Cardinality(found) > 1
             THEN NoEntry("Organization.MultipleObjectsReturned")
             ELSE IF "district" \notin DOMAIN role THEN NoEntry("KeyError")
             ELSE IF [organization |-> TheOne(found), label |-> role["district"]]
                        \notin d.Post
             THEN NoEntry("CancelTransaction")
             ELSE Entry([organization |-> TheOne(found),
                         post |-> PostKey(TheOne(found), role["district"]),
                         start_date |-> Get(role, "start_date", ""),
                         end_date |-> Get(role, "end_date", "")])

load_person(d, data) ==
    IF "name" \notin DOMAIN data THEN Failed("KeyError", d)
    ELSE
    LET pk == data["id"]
        d0 == get_update_or_create(d, "Person", PersonFields(data)).db
        d1 == update_subobjects(d0, "Person", pk, "other_names",
                                Get(data, "other_names", <<>>), FALSE).db
        d2 == update_subobjects(d1, "Person", pk, "links",
                                Get(data, "links", <<>>), FALSE).db
        d3 == update_subobjects(d2, "Person", pk, "sources",
                                Get(data, "sources", <<>>), FALSE).db
        d4 == update_subobjects(d3, "Person", pk, "identifiers",
                                Identifiers(data), FALSE).db
        d5 == update_subobjects(d4, "Person", pk, "contact_details",
                                ContactDetails(data), FALSE).db
        party == Get(data, "party", <<>>)
        roles == Get(data, "roles", <<>>)
        entries == [i \in DOMAIN party |-> PartyMembership(d5, party[i])]
                   \o [i \in DOMAIN roles |-> RoleMembership(d5, roles[i])]
        memberships == [i \in DOMAIN entries |-> entries[i].row]
    IN  IF FirstExc(entries) # "" THEN Failed(FirstExc(entries), d5)
        ELSE Committed(update_subobjects(d5, "Person", pk, "memberships",
                                         memberships, TRUE).db)

OrgMembership(d, role) ==
    LET id == Get(role, "id", "")
    IN  IF id # "" /\ id \notin DOMAIN d.Person THEN NoEntry("CancelTransaction")
        ELSE IF "name" \notin DOMAIN role THEN NoEntry("KeyError")
        ELSE Entry([person |-> IF id # "" THEN id ELSE "None",
                    person_name |-> role["name"],
                    role |-> Get(role, "role", "member"),
                    start_date |-> Get(role, "start_date", ""),
                    end_date |-> Get(role, "end_date", "")])
load_org(d, data) ==
    IF "parent" \notin DOMAIN data THEN Failed("KeyError", d)
    ELSE
    LET parent_id == data["parent"]
        parents ==
            IF parent_id \in StartsWithOcdOrganization
            THEN {parent_id} \cap DOMAIN d.Organization
            ELSE OrganizationsWith(d, Get(data, "jurisdiction", ""), parent_id)
    IN  IF parent_id \notin StartsWithOcdOrganization /\ "jurisdiction" \notin DOMAIN data
        THEN Failed("KeyError", d)
        ELSE IF parents = {} THEN Failed("Organization.DoesNotExist", d)
        ELSE IF Cardinality(parents) > 1
        THEN Failed("Organization.MultipleObjectsReturned", d)
        ELSE IF {"name", "jurisdiction", "classification"} \cap DOMAIN data
                    # {"name", "jurisdiction", "classification"}
        THEN Failed("KeyError", d)
        ELSE
        LET pk == data["id"]
            fields == [id |-> pk,
                       name |-> data["name"],
                       jurisdiction_id |-> data["jurisdiction"],
                       classification |-> data["classification"],
                       founding_date |-> Get(data, "founding_date", ""),
                       dissolution_date |-> Get(data, "dissolution_date", ""),
                       parent |-> TheOne(parents)]
            d0 == get_update_or_create(d, "Organization", fields).db
            d1 == update_subobjects(d0, "Organization", pk, "links",
                                    Get(data, "links", <<>>), FALSE).db
            d2 == update_subobjects(d1, "Organization", pk, "sources",
                                    Get(data, "sources", <<>>), FALSE).db
            roles == Get(data, "memberships", <<>>)
            entries == [i \in DOMAIN roles |-> OrgMembership(d2, roles[i])]
            memberships == [i \in DOMAIN entries |-> entries[i].row]
        IN  IF FirstExc(entries) # "" THEN Failed(FirstExc(entries), d2)
            ELSE Committed(update_subobjects(d2, "Organization", pk, "memberships",
                                             memberships, FALSE).db)

\* load_directory, lines 194-210: the ids the database holds for the jurisdiction
ExistingIds(d, type, jurisdiction_id) ==
    IF type = "person"
    THEN {p \in DOMAIN d.Person :
            \E i \in DOMAIN d.memberships :
                /\ d.memberships[i]["person"] = p
                /\ d.Organization[d.memberships[i]["organization"]]["jurisdiction_id"]
                      = jurisdiction_id}
    ELSE OrganizationsWith(d, jurisdiction_id, "committee")
ModelOf(type) == IF type = "person" THEN "Person" ELSE "Organization"
LoadFunc(d, type, data) ==
    IF type = "person" THEN load_person(d, data) ELSE load_org(d, data)
\* ModelCls.objects.filter(id__in=ids).delete(), with what the foreign keys
\* to the deleted rows do: the related rows are deleted with their owner,
\* a membership of a deleted person, a membership in a deleted post and a
\* child of a deleted organization are unlinked
Without(f, keys) == [k \in DOMAIN f \ keys |-> f[k]]
Unlink(rows, column, keys) ==
    [i \in DOMAIN rows |->
        IF rows[i][column] \in keys THEN [rows[i] EXCEPT ![column] = "None"]
        ELSE rows[i]]
Owned(rows, column, keys) == SelectSeq(rows, LAMBDA row : row[column] \notin keys)
Delete(d, ModelCls, ids) ==
    IF ModelCls = "Person"
    THEN [d EXCEPT
            !.Person = Without(@, ids),
            !.person_other_names = Owned(@, "person", ids),
            !.person_links = Owned(@, "person", ids),
            !.person_sources = Owned(@, "person", ids),
            !.person_identifiers = Owned(@, "person", ids),
            !.person_contact_details = Owned(@, "person", ids),
            !.memberships = Unlink(@, "person", ids)]
    ELSE LET posts == {PostKey(p.organization, p.label) :
                          p \in {q \in d.Post : q.organization \in ids}}
         IN  [d EXCEPT
                !.Organization =
                    [o \in DOMAIN @ \ ids |->
                        IF @[o]["parent"] \in ids
                        THEN [@[o] EXCEPT !["parent"] = "None"] ELSE @[o]],
                !.Post = {p \in @ : p.organization \notin ids},
                !.organization_links = Owned(@, "organization", ids),
                !.organization_sources = Owned(@, "organization", ids),
                !.memberships = Unlink(Owned(@, "organization", ids), "post", posts)]
MissingIds_AllExisting(existing_ids, ids) == existing_ids
MissingIds(existing_ids, ids) == existing_ids \ ids

(***************************************************************************)
(* to_database: the files and the databases the runs are drawn from.  A    *)
(* database of the menu is what loading records into the base database     *)
(* (the chamber, its posts and the party) leaves.                          *)
(***************************************************************************)
JURISDICTION_ID == GOOD_JURISDICTION
UpperRole(district) ==
    [type |-> "upper", district |-> district, jurisdiction |-> JURISDICTION_ID]
AnneData ==
    [id |-> GOOD_PERSON_ID, name |-> "Anne A",
     party |-> << [name |-> "Democratic"] >>,
     roles |-> << UpperRole("1") >>,
     links |-> << [url |-> "https://example.com"] >>,
     ids |-> [twitter |-> "anne"],
     contact_details |-> << [note |-> "Capitol Office", voice |-> "555-1234",
                             email |-> "anne@example.com"] >>]
AnneMoved ==
    [id |-> GOOD_PERSON_ID, name |-> "Anne B", roles |-> << UpperRole("2") >>]
BobData ==
    [id |-> SECOND_PERSON_ID, name |-> "Bob B", roles |-> << UpperRole("2") >>]
BobNoPost ==
    [id |-> SECOND_PERSON_ID, name |-> "Bob B", roles |-> << UpperRole("9") >>]
CyData ==
    [id |-> SECOND_PERSON_ID, name |-> "Cy C",
     roles |-> << [type |-> "governor", jurisdiction |-> JURISDICTION_ID] >>]
GilData ==
    [id |-> GONE_PERSON_ID, name |-> "Gil G", roles |-> << UpperRole("2") >>]
PersonDataMenu == {AnneData, AnneMoved, BobData, BobNoPost, CyData}

FinanceData ==
    [id |-> COMMITTEE_ID, name |-> "Finance", jurisdiction |-> JURISDICTION_ID,
     classification |-> "committee", parent |-> "upper",
     memberships |-> << [id |-> GOOD_PERSON_ID, name |-> "Anne A",
                         role |-> "chair"] >>]
RulesData ==
    [id |-> GOOD_ORG_ID, name |-> "Rules", jurisdiction |-> JURISDICTION_ID,
     classification |-> "committee", parent |-> SENATE_ID,
     memberships |-> << [id |-> SECOND_PERSON_ID, name |-> "Bob B"],
                        [name |-> "Dee D"] >>]
EthicsData ==
    [id |-> OLD_COMMITTEE_ID, name |-> "Ethics", jurisdiction |-> JURISDICTION_ID,
     classification |-> "committee", parent |-> "upper"]

\* the files glob.glob returns: distinct files, in any order
DistinctLists(menu, n) ==
    {s \in UNION {[1..k -> menu] : k \in 0..n} :
        \A i, j \in DOMAIN s : i # j => s[i] # s[j]}
PersonFileLists == DistinctLists(PersonDataMenu, MaxFiles)
CommitteeFileLists ==
    {<<>>, <<FinanceData>>, <<RulesData>>, <<FinanceData, RulesData>>}

BaseDatabase ==
    [EmptyDatabase EXCEPT
        !.Organization =
            [o \in {SENATE_ID, PARTY_ID} |->
                IF o = SENATE_ID
                THEN [OrganizationDefaults EXCEPT
                         !.id = SENATE_ID, !.name = "Senate",
                         !.jurisdiction_id = JURISDICTION_ID,
                         !.classification = "upper", !.saves = 1]
                ELSE [OrganizationDefaults EXCEPT
                         !.id = PARTY_ID, !.name = "Democratic",
                         !.classification = "party", !.saves = 1]],
        !.Post = {[organization |-> SENATE_ID, label |-> "1"],
                  [organization |-> SENATE_ID, label |-> "2"]}]
RECURSIVE Stored(_, _, _)
Stored(d, type, datas) ==
    IF datas = <<>> THEN d
    ELSE Stored(LoadFunc(d, type, Head(datas)).db, type, Tail(datas))
DatabaseMenu ==
    {BaseDatabase,
     Stored(Stored(BaseDatabase, "person", <<AnneData>>),
            "organization", <<FinanceData>>),
     Stored(Stored(BaseDatabase, "person", <<AnneData, GilData>>),
            "organization", <<FinanceData, EthicsData>>)}

NoFrame == [type |-> "", existing_ids |-> {}, ids |-> {}, index |-> 0]

\* update_subobjects: the lists of links and of identifiers passed for Anne,
\* and the databases they are passed on: Anne with the link and the
\* identifier of her file, and Anne with a link that has a note
LinkMenu ==
    {[url |-> "https://example.com"],
     [url |-> "https://example.com", note |-> "home"],
     [url |-> "http://example.com"]}
IdentifierMenu ==
    {[scheme |-> "twitter", identifier |-> "anne"],
     [scheme |-> "facebook", identifier |-> "anne"]}
ListsOf(menu) == UNION {[1..k -> menu] : k \in 0..MaxItems}
ObjectsValues ==
    {[fieldname |-> "links", list |-> l] : l \in ListsOf(LinkMenu)}
    \cup {[fieldname |-> "identifiers", list |-> l] : l \in ListsOf(IdentifierMenu)}
NoObjects == [fieldname |-> "", list |-> <<>>]
AnneStored ==
    Stored(Stored(BaseDatabase, "person", <<AnneData>>), "organization",
           <<FinanceData>>)
SubobjectDatabases ==
    {AnneStored,
     update_subobjects(AnneStored, "Person", GOOD_PERSON_ID, "links",
                       << [url |-> "https://example.com", note |-> "home"] >>,
                       FALSE).db}

(***************************************************************************)
(* The calls.                                                              *)
(***************************************************************************)
NoResult == Ok(<<>>)
NoSetOrder == CHOOSE s \in SetOrders : TRUE
NoExpected == Returns(<<>>)
NoCompared == [errors |-> <<>>, warnings |-> <<>>]

InitValidateObj ==
    /\ op = "validate_obj"
    /\ schemaName \in SchemaNames
    /\ obj \in RecordsOf(schemaName)
    /\ setOrder \in SetOrders

InitIsRole ==
    /\ op = "is_role"
    /\ schemaName = ""
    /\ obj \in RoleRecords
    /\ setOrder \in SetOrders

InitValidateRoles ==
    /\ op = "validate_roles"
    /\ obj \in RolesPersons
    /\ roles_key \in {"roles", "party"}
    /\ retired \in BOOLEAN

InitGetExpectedDistricts ==
    /\ op = "get_expected_districts"
    /\ settings \in SettingsValues
    /\ expected = NoExpected
    /\ actual = <<>>

\* the Validator holds expected = get_expected_districts(settings[abbr])
InitCompareDistricts ==
    /\ op = "compare_districts"
    /\ settings \in CompareSettings
    /\ expected = get_expected_districts(settings)
    /\ actual \in Occupancies

\* process_dir after `self = Validator(settings, abbr)`
InitProcessDir ==
    /\ op = "process_dir"
    /\ settings \in ProcessSettings
    /\ expected = get_expected_districts(settings)
    /\ files \in FilesValues
    /\ position = 0
    /\ self = Validator

NoProcessDir == files = NoFiles /\ position = 0 /\ self = Validator

\* to_database at `try:`, line 281
InitToDatabase ==
    /\ op = "to_database"
    /\ db \in DatabaseMenu
    /\ snapshot = db
    /\ person_files \in PersonFileLists
    /\ committee_files \in CommitteeFileLists
    /\ purge \in BOOLEAN
    /\ safe \in BOOLEAN
    /\ frame = NoFrame
    /\ subobjects = NoObjects /\ returned = <<>>

\* two calls update_subobjects(person, fieldname, objects), one after the other
InitUpdateSubobjects ==
    /\ op = "update_subobjects"
    /\ db \in SubobjectDatabases
    /\ snapshot = db
    /\ subobjects \in ObjectsValues
    /\ returned = <<>>
    /\ person_files = <<>> /\ committee_files = <<>>
    /\ purge = FALSE /\ safe = FALSE /\ frame = NoFrame

NoToDatabase ==
    /\ db = EmptyDatabase /\ snapshot = EmptyDatabase
    /\ person_files = <<>> /\ committee_files = <<>>
    /\ purge = FALSE /\ safe = FALSE /\ frame = NoFrame
    /\ subobjects = NoObjects /\ returned = <<>>

Init ==
    /\ pc = "ready"
    /\ result = NoResult
    /\ compared = NoCompared
    /\ \/ /\ InitProcessDir /\ NoToDatabase
          /\ schemaName = "" /\ setOrder = NoSetOrder /\ obj = None
          /\ roles_key = "" /\ retired = FALSE /\ actual = <<>>
       \/ /\ InitValidateObj /\ NoProcessDir /\ NoToDatabase
          /\ roles_key = "" /\ retired = FALSE
          /\ settings = <<>> /\ expected = NoExpected /\ actual = <<>>
       \/ /\ InitIsRole /\ NoProcessDir /\ NoToDatabase
          /\ roles_key = "" /\ retired = FALSE
          /\ settings = <<>> /\ expected = NoExpected /\ actual = <<>>
       \/ /\ InitValidateRoles /\ NoProcessDir /\ NoToDatabase
          /\ schemaName = "" /\ setOrder = NoSetOrder
          /\ settings = <<>> /\ expected = NoExpected /\ actual = <<>>
       \/ /\ InitGetExpectedDistricts /\ NoProcessDir /\ NoToDatabase
          /\ schemaName = "" /\ setOrder = NoSetOrder /\ obj = None
          /\ roles_key = "" /\ retired = FALSE
       \/ /\ InitCompareDistricts /\ NoProcessDir /\ NoToDatabase
          /\ schemaName = "" /\ setOrder = NoSetOrder /\ obj = None
          /\ roles_key = "" /\ retired = FALSE
       \/ /\ InitUpdateSubobjects /\ NoProcessDir
          /\ schemaName = "" /\ setOrder = NoSetOrder /\ obj = None
          /\ roles_key = "" /\ retired = FALSE
          /\ settings = <<>> /\ expected = NoExpected /\ actual = <<>>
       \/ /\ InitToDatabase /\ NoProcessDir
          /\ schemaName = "" /\ setOrder = NoSetOrder /\ obj = None
          /\ roles_key = "" /\ retired = FALSE
          /\ settings = <<>> /\ expected = NoExpected /\ actual = <<>>

\* errors = validate_obj(obj, schema)
ValidateObj ==
    /\ pc = "ready"
    /\ op = "validate_obj"
    /\ result' = validate_obj(obj, SchemaOf(schemaName), <<>>, setOrder)
    /\ pc' = "done"
    /\ UNCHANGED <<op, schemaName, obj, setOrder, roles_key, retired,
                   settings, expected, actual, compared>>
    /\ UNCHANGED lintVars
    /\ UNCHANGED dbVars

\* errors = is_role(role)
IsRole ==
    /\ pc = "ready"
    /\ op = "is_role"
    /\ result' = is_role(obj, setOrder)
    /\ pc' = "done"
    /\ UNCHANGED <<op, schemaName, obj, setOrder, roles_key, retired,
                   settings, expected, actual, compared>>
    /\ UNCHANGED lintVars
    /\ UNCHANGED dbVars

\* errors = validate_roles(person, roles_key, retired)
ValidateRoles ==
    /\ pc = "ready"
    /\ op = "validate_roles"
    /\ result' = validate_roles(obj, roles_key, retired)
    /\ pc' = "done"
    /\ UNCHANGED <<op, schemaName, obj, setOrder, roles_key, retired,
                   settings, expected, actual, compared>>
    /\ UNCHANGED lintVars
    /\ UNCHANGED dbVars

\* expected = get_expected_districts(settings)
GetExpectedDistricts ==
    /\ pc = "ready"
    /\ op = "get_expected_districts"
    /\ expected' = get_expected_districts(settings)
    /\ pc' = "done"
    /\ UNCHANGED <<op, schemaName, obj, setOrder, result, roles_key, retired,
                   settings, actual, compared>>
    /\ UNCHANGED lintVars
    /\ UNCHANGED dbVars

\* errors, warnings = compare_districts(expected, actual)
CompareDistricts ==
    /\ pc = "ready"
    /\ op = "compare_districts"
    /\ expected.exc = ""
    /\ compared' = compare_districts(expected.value, actual)
    /\ pc' = "done"
    /\ UNCHANGED <<op, schemaName, obj, setOrder, result, roles_key, retired,
                   settings, expected, actual>>
    /\ UNCHANGED lintVars
    /\ UNCHANGED dbVars

\* the loop over person_filenames: validator.validate_person(person, filename)
ValidatePerson ==
    /\ pc = "ready"
    /\ op = "process_dir"
    /\ position < Len(files.people)
    /\ LET file == files.people[position + 1]
           out == validate_person(self, file.data, file.filename, FALSE,
                                  setOrder)
       IN  /\ self' = out.v
           /\ IF out.exc = ""
              THEN position' = position + 1 /\ UNCHANGED <<pc, result>>
              ELSE pc' = "raised" /\ result' = Raise(out.exc) /\ UNCHANGED position
    /\ UNCHANGED <<op, schemaName, obj, setOrder, roles_key, retired,
                   settings, expected, actual, compared, files>>
    /\ UNCHANGED dbVars

\* the loop over retired_filenames:
\* validator.validate_person(person, filename, retired=True)
ValidateRetired ==
    /\ pc = "ready"
    /\ op = "process_dir"
    /\ position >= Len(files.people)
    /\ position < Len(files.people) + Len(files.retired)
    /\ LET file == files.retired[position - Len(files.people) + 1]
           out == validate_person(self, file.data, file.filename, TRUE,
                                  setOrder)
       IN  /\ self' = out.v
           /\ IF out.exc = ""
              THEN position' = position + 1 /\ UNCHANGED <<pc, result>>
              ELSE pc' = "raised" /\ result' = Raise(out.exc) /\ UNCHANGED position
    /\ UNCHANGED <<op, schemaName, obj, setOrder, roles_key, retired,
                   settings, expected, actual, compared, files>>
    /\ UNCHANGED dbVars

\* the loop over org_filenames: validator.validate_org(org, filename)
ValidateOrg ==
    /\ pc = "ready"
    /\ op = "process_dir"
    /\ position >= Len(files.people) + Len(files.retired)
    /\ position < Len(files.people) + Len(files.retired) + Len(files.organizations)
    /\ LET file == files.organizations[position - Len(files.people)
                                         - Len(files.retired) + 1]
           out == validate_org(self, file.data, file.filename, setOrder)
       IN  /\ self' = out.v
           /\ IF out.exc = ""
              THEN position' = position + 1 /\ UNCHANGED <<pc, result>>
              ELSE pc' = "raised" /\ result' = Raise(out.exc) /\ UNCHANGED position
    /\ UNCHANGED <<op, schemaName, obj, setOrder, roles_key, retired,
                   settings, expected, actual, compared, files>>
    /\ UNCHANGED dbVars

\* validator.print_validation_report(verbose), run before the second file
\* loop has ended
PrintValidationReport_BeforeRetired ==
    /\ pc = "ready"
    /\ op = "process_dir"
    /\ position >= Len(files.people)
    /\ self' = ReportWarnings(self)
    /\ compared' = compare_districts(expected.value,
                                     OccupantsOf(self.active_legislators))
    /\ pc' = "done"
    /\ UNCHANGED <<op, schemaName, obj, setOrder, result, roles_key, retired,
                   settings, expected, actual, files, position>>
    /\ UNCHANGED dbVars

\* validator.print_validation_report(verbose), after the three loops
PrintValidationReport ==
    /\ pc = "ready"
    /\ op = "process_dir"
    /\ position = Len(files.people) + Len(files.retired) + Len(files.organizations)
    /\ self' = ReportWarnings(self)
    /\ compared' = compare_districts(expected.value,
                                     OccupantsOf(self.active_legislators))
    /\ pc' = "done"
    /\ UNCHANGED <<op, schemaName, obj, setOrder, result, roles_key, retired,
                   settings, expected, actual, files, position>>
    /\ UNCHANGED dbVars

(***************************************************************************)
(* to_database.  pc is "ready" at the first load_directory call, "loading" *)
(* in the loop over the files, "between" at the second load_directory      *)
(* call and "end" after it.  An exception leaves the `with                 *)
(* transaction.atomic()` block, which rolls the database back to what it   *)
(* was on entry; CancelTransaction is then caught, any other exception     *)
(* leaves to_database.                                                     *)
(***************************************************************************)
FilesOf(type) == IF type = "person" THEN person_files ELSE committee_files
Abort(exc) ==
    /\ db' = snapshot
    /\ pc' = IF exc = "CancelTransaction" THEN "done" ELSE "raised"
    /\ result' = IF exc = "CancelTransaction" THEN Ok(<<>>) ELSE Raise(exc)

\* load_directory up to its loop
LoadDirectory ==
    /\ op = "to_database"
    /\ pc \in {"ready", "between"}
    /\ LET type == IF pc = "ready" THEN "person" ELSE "organization"
       IN  frame' = [type |-> type,
                     existing_ids |-> ExistingIds(db, type, JURISDICTION_ID),
                     ids |-> {},
                     index |-> 0]
    /\ pc' = "loading"
    /\ UNCHANGED <<db, result, snapshot, person_files, committee_files, purge, safe>>
    /\ UNCHANGED subVars
    /\ UNCHANGED callVars

\* one iteration of the loop of load_directory
LoadFile ==
    /\ op = "to_database"
    /\ pc = "loading"
    /\ frame.index < Len(FilesOf(frame.type))
    /\ LET data == FilesOf(frame.type)[frame.index + 1]
       IN  IF "id" \notin DOMAIN data
           THEN Abort("KeyError") /\ UNCHANGED frame
           ELSE LET out == LoadFunc(db, frame.type, data)
                IN  IF out.exc # ""
                    THEN /\ Abort(out.exc)
                         /\ frame' = [frame EXCEPT !.ids = @ \cup {data["id"]}]
                    ELSE /\ db' = out.db
                         /\ frame' = [frame EXCEPT !.ids = @ \cup {data["id"]},
                                                   !.index = @ + 1]
                         /\ UNCHANGED <<pc, result>>
    /\ UNCHANGED <<snapshot, person_files, committee_files, purge, safe>>
    /\ UNCHANGED subVars
    /\ UNCHANGED callVars

\* load_directory after its loop
FinishDirectory ==
    /\ op = "to_database"
    /\ pc = "loading"
    /\ frame.index = Len(FilesOf(frame.type))
    /\ LET missing_ids == MissingIds(frame.existing_ids, frame.ids)
       IN  IF missing_ids # {} /\ ~purge
           THEN Abort("CancelTransaction")
           ELSE /\ db' = IF missing_ids # {}
                         THEN Delete(db, ModelOf(frame.type), missing_ids)
                         ELSE db
                /\ pc' = IF frame.type = "person" THEN "between" ELSE "end"
                /\ UNCHANGED result
    /\ UNCHANGED <<frame, snapshot, person_files, committee_files, purge, safe>>
    /\ UNCHANGED subVars
    /\ UNCHANGED callVars

EndTransaction_IgnoresSafe ==
    /\ op = "to_database"
    /\ pc = "end"
    /\ pc' = "done" /\ UNCHANGED <<db, result>>
    /\ UNCHANGED <<frame, snapshot, person_files, committee_files, purge, safe>>
    /\ UNCHANGED subVars
    /\ UNCHANGED callVars
\* to_database after the second load_directory, lines 285-289
EndTransaction ==
    /\ op = "to_database"
    /\ pc = "end"
    /\ IF safe THEN Abort("CancelTransaction")
       ELSE pc' = "done" /\ UNCHANGED <<db, result>>
    /\ UNCHANGED <<frame, snapshot, person_files, committee_files, purge, safe>>
    /\ UNCHANGED subVars
    /\ UNCHANGED callVars

\* updated = update_subobjects(person, fieldname, objects), the first and the
\* second time
UpdateSubobjects ==
    /\ op = "update_subobjects"
    /\ pc \in {"ready", "called"}
    /\ LET out == update_subobjects(db, "Person", GOOD_PERSON_ID,
                                    subobjects.fieldname, subobjects.list,
                                    FALSE)
       IN  /\ db' = out.db
           /\ returned' = Append(returned, out.updated)
    /\ pc' = IF pc = "ready" THEN "called" ELSE "done"
    /\ UNCHANGED <<result, snapshot, person_files, committee_files, purge, safe,
                   frame, subobjects>>
    /\ UNCHANGED callVars

Next ==
    \/ UpdateSubobjects
    \/ LoadDirectory
    \/ LoadFile
    \/ FinishDirectory
    \/ EndTransaction
    \/ ValidatePerson
    \/ ValidateRetired
    \/ ValidateOrg
    \/ PrintValidationReport
    \/ ValidateObj
    \/ IsRole
    \/ ValidateRoles
    \/ GetExpectedDistricts
    \/ CompareDistricts

Spec == Init /\ [][Next]_vars


(***************************************************************************)
(* Properties of validate_obj and is_role.                                 *)
(***************************************************************************)
Done(o) == pc = "done" /\ op = o
Returned(o) == Done(o) /\ result.exc = ""

StartsWith(e, p) == Len(e) >= Len(p) /\ SubSeq(e, 1, Len(p)) = p
HasError(e) == \E i \in DOMAIN result.errors : result.errors[i] = e
IsRequired(node) ==
    node.shape = "list"
    /\ \E i \in DOMAIN node.validators : node.validators[i] = Required
LegislativeTypes == {"upper", "lower", "legislature"}
ExecutiveTypes == {"gov", "lt_gov"}
TypeOf(role) ==
    IF Has(role, "type") /\ role.fields["type"].kind = "str"
    THEN role.fields["type"].text ELSE ""
Recognized(role) == TypeOf(role) \in LegislativeTypes \cup ExecutiveTypes
RoleSchema(role) ==
    IF TypeOf(role) \in LegislativeTypes THEN LEGISLATIVE_ROLE_FIELDS
    ELSE EXECUTIVE_ROLE_FIELDS
RECURSIVE SumSeq(_)
SumSeq(ns) == IF Len(ns) = 0 THEN 0 ELSE ns[1] + SumSeq(Tail(ns))

\* a record is valid for a schema: it is a mapping with no undeclared key, every
\* Required field present, every present leaf value accepted by each of its
\* validators, every Object field a valid mapping, every NestedList field a list
\* of valid mappings (of roles of a recognized type valid for that type's schema)
RECURSIVE Conforms(_, _)
ConformsField(o, field, node) ==
    IF field \notin Keys(o) THEN ~IsRequired(node)
    ELSE LET value == o.fields[field]
         IN  CASE node.shape = "list" ->
                    \A i \in DOMAIN node.validators :
                        node.validators[i] # Required
                            => CallValidator(node.validators[i], value)
               [] node.shape = "dict" -> Conforms(value, node.schema)
               [] node.shape = "NestedList" ->
                    /\ value.kind = "list"
                    /\ \A i \in DOMAIN value.items :
                          IF node.fn = ""
                          THEN Conforms(value.items[i], node.schema)
                          ELSE /\ Recognized(value.items[i])
                               /\ Conforms(value.items[i],
                                           RoleSchema(value.items[i]))
               [] OTHER -> FALSE
Conforms(o, schema) ==
    /\ o.kind = "dict"
    /\ Keys(o) \subseteq SchemaKeys(schema)
    /\ \A i \in DOMAIN schema : ConformsField(o, schema[i].field, schema[i].node)

\* C1: a record that has every Required field of the schema, whose present leaf
\* values pass all their validators and that has no key outside the schema at any
\* nesting level gets the empty list from validate_obj.
C1_ValidRecordNoErrors ==
    Done("validate_obj") /\ Conforms(obj, SchemaOf(schemaName))
        => result = Ok(<<>>)

C1_Witness ==
    /\ Done("validate_obj")
    /\ schemaName = "PERSON_FIELDS"
    /\ Conforms(obj, PERSON_FIELDS)
    /\ Has(obj, "roles")
    /\ Len(obj.fields["roles"].items) >= 2
    /\ result = Ok(<<>>)

\* the errors about an absent field at path: exactly '<path><field> missing'
\* when the field is Required, none otherwise
AbsentFieldOk(path, field, node) ==
    LET mine == {i \in DOMAIN result.errors :
                    StartsWith(result.errors[i], path \o <<field>>)}
    IN  IF IsRequired(node)
        THEN /\ Cardinality(mine) = 1
             /\ \A i \in mine : result.errors[i] = path \o <<field, " missing">>
        ELSE mine = {}
AbsentFieldsOk(o, schema, path) ==
    \A i \in DOMAIN schema :
        schema[i].field \notin Keys(o)
            => AbsentFieldOk(path, schema[i].field, schema[i].node)

\* C2: a schema field absent from the record (the top-level record, a nested
\* Object, an element of a NestedList, a role) yields exactly one error
\* '<path><field> missing' when it is Required and none when it is not, and no
\* 'failed validation' error: no other error is about that field.
C2_AbsentField ==
    /\ Returned("is_role") /\ Recognized(obj)
          => AbsentFieldsOk(obj, RoleSchema(obj), <<>>)
    /\ Returned("validate_obj") =>
          /\ AbsentFieldsOk(obj, SchemaOf(schemaName), <<>>)
          /\ \A i \in DOMAIN SchemaOf(schemaName) :
                LET field == SchemaOf(schemaName)[i].field
                    node == SchemaOf(schemaName)[i].node
                    value == obj.fields[field]
                IN  field \in Keys(obj) =>
                      CASE node.shape = "dict" ->
                              AbsentFieldsOk(value, node.schema, <<field, ".">>)
                        [] node.shape = "NestedList" /\ value.kind = "list" ->
                              \A k \in DOMAIN value.items :
                                 IF node.fn = ""
                                 THEN AbsentFieldsOk(value.items[k], node.schema,
                                          <<field, ".", str(k - 1), ".">>)
                                 ELSE Recognized(value.items[k]) =>
                                        AbsentFieldsOk(value.items[k],
                                          RoleSchema(value.items[k]),
                                          <<field, ".", str(k - 1), ": ">>)
                        [] OTHER -> TRUE

C2_Witness ==
    /\ Returned("validate_obj")
    /\ schemaName = "PERSON_FIELDS"
    /\ ~Has(obj, "id")
    /\ HasError(<<"id", " missing">>)
    /\ HasError(<<"links", ".", "1", ".", "url", " missing">>)
    /\ Len(result.errors) = 2

\* the number of keys outside the schema in all the mappings validate_obj visits
RECURSIVE UndeclaredCount(_, _)
UndeclaredIn(o, field, node) ==
    IF field \notin Keys(o) THEN 0
    ELSE LET value == o.fields[field]
         IN  CASE node.shape = "dict" -> UndeclaredCount(value, node.schema)
               [] node.shape = "NestedList" /\ value.kind = "list" ->
                    SumSeq([k \in DOMAIN value.items |->
                        IF node.fn = ""
                        THEN UndeclaredCount(value.items[k], node.schema)
                        ELSE IF Recognized(value.items[k])
                        THEN UndeclaredCount(value.items[k],
                                             RoleSchema(value.items[k]))
                        ELSE 0])
               [] OTHER -> 0
UndeclaredCount(o, schema) ==
    Cardinality(Keys(o) \ SchemaKeys(schema))
    + SumSeq([i \in DOMAIN schema |->
                UndeclaredIn(o, schema[i].field, schema[i].node)])

IsExtraKeyError(e) == \E i \in DOMAIN e : e[i] = "extra key: "
ExtraKeyCount(e) == Cardinality({i \in DOMAIN result.errors : result.errors[i] = e})
\* each key of the mapping at path: one 'extra key' error when undeclared, else none
KeysOk(o, schema, head, path) ==
    \A k \in Keys(o) :
        ExtraKeyCount(head \o <<"extra key: ">> \o path \o <<k>>)
            = IF k \in SchemaKeys(schema) THEN 0 ELSE 1

\* C3: in every mapping validate_obj visits (the top-level record, a nested
\* Object, each element of a NestedList) each key the schema does not declare
\* yields exactly one 'extra key: <path><key>' error and a declared key yields
\* none; the 'extra key' errors are as many as the undeclared keys.
C3_ExtraKeys ==
    Returned("validate_obj") =>
        /\ Cardinality({i \in DOMAIN result.errors :
                            IsExtraKeyError(result.errors[i])})
              = UndeclaredCount(obj, SchemaOf(schemaName))
        /\ KeysOk(obj, SchemaOf(schemaName), <<>>, <<>>)
        /\ \A i \in DOMAIN SchemaOf(schemaName) :
              LET field == SchemaOf(schemaName)[i].field
                  node == SchemaOf(schemaName)[i].node
                  value == obj.fields[field]
              IN  field \in Keys(obj) =>
                    CASE node.shape = "dict" ->
                            KeysOk(value, node.schema, <<>>, <<field, ".">>)
                      [] node.shape = "NestedList" /\ value.kind = "list" ->
                            \A k \in DOMAIN value.items :
                               IF node.fn = ""
                               THEN KeysOk(value.items[k], node.schema, <<>>,
                                           <<field, ".", str(k - 1), ".">>)
                               ELSE Recognized(value.items[k]) =>
                                      KeysOk(value.items[k],
                                             RoleSchema(value.items[k]),
                                             <<field, ".", str(k - 1), ": ">>,
                                             <<>>)
                      [] OTHER -> TRUE

C3_Witness ==
    /\ Returned("validate_obj")
    /\ schemaName = "PERSON_FIELDS"
    /\ HasError(<<"extra key: ", "junk">>)
    /\ HasError(<<"extra key: ", "links", ".", "0", ".", "bad">>)
    /\ Cardinality({i \in DOMAIN result.errors :
                        IsExtraKeyError(result.errors[i])}) = 2


\* C4 (as claimed): an error about a field nested two levels deep carries the
\* path from the root, 'outer.inner.field' for an Object inside an Object and
\* 'outer.inner.index.field' for a NestedList inside an Object.
C4_FullPathFromRoot ==
    Returned("validate_obj") =>
        \A i \in DOMAIN SchemaOf(schemaName) :
            LET outer == SchemaOf(schemaName)[i].field
                node == SchemaOf(schemaName)[i].node
                value == obj.fields[outer]
            IN  outer \in Keys(obj) /\ node.shape = "dict" =>
                  \A j \in DOMAIN node.schema :
                     LET inner == node.schema[j].field
                         sub == node.schema[j].node
                         deep == value.fields[inner]
                     IN  inner \in Keys(value) =>
                           /\ sub.shape = "dict" =>
                                \A h \in DOMAIN sub.schema :
                                   IsRequired(sub.schema[h].node)
                                   /\ sub.schema[h].field \notin Keys(deep)
                                   => HasError(<<outer, ".", inner, ".",
                                                 sub.schema[h].field, " missing">>)
                           /\ sub.shape = "NestedList" =>
                                \A k \in DOMAIN deep.items :
                                 \A h \in DOMAIN sub.schema :
                                   IsRequired(sub.schema[h].node)
                                   /\ sub.schema[h].field \notin Keys(deep.items[k])
                                   => HasError(<<outer, ".", inner, ".", str(k - 1),
                                                 ".", sub.schema[h].field,
                                                 " missing">>)

\* the recursion of validate_obj replaces the path instead of extending it: the
\* error of office.address.city is reported as 'address.city missing'
C4_PathDropsOuterField ==
    /\ Returned("validate_obj")
    /\ schemaName = "OFFICE_FIELDS"
    /\ Has(obj, "office") /\ Has(obj.fields["office"], "address")
    /\ ~Has(obj.fields["office"].fields["address"], "city")
    /\ HasError(<<"address", ".", "city", " missing">>)
    /\ ~HasError(<<"office", ".", "address", ".", "city", " missing">>)

InvalidType == Ok(<< <<"invalid type">> >>)

\* C5: a role whose type is none of upper, lower, legislature, gov, lt_gov (a
\* role with no type included) gets exactly ['invalid type'] from is_role,
\* whatever else it carries; in a person's roles list it is reported by the one
\* error 'roles.i: invalid type'.
C5_InvalidTypeOnly ==
    /\ Done("is_role") /\ obj.kind = "dict" /\ ~Recognized(obj)
          => result = InvalidType
    /\ Returned("validate_obj") /\ schemaName = "PERSON_FIELDS"
       /\ Has(obj, "roles") /\ obj.fields["roles"].kind = "list"
          => \A k \in DOMAIN obj.fields["roles"].items :
                ~Recognized(obj.fields["roles"].items[k]) =>
                  LET mine == {i \in DOMAIN result.errors :
                                 StartsWith(result.errors[i],
                                            <<"roles", ".", str(k - 1)>>)}
                  IN  /\ Cardinality(mine) = 1
                      /\ \A i \in mine :
                            result.errors[i]
                              = <<"roles", ".", str(k - 1), ": ", "invalid type">>

C5_Witness ==
    /\ Done("is_role")
    /\ TypeOf(obj) = "mayor"
    /\ Has(obj, "district")
    /\ ~Has(obj, "jurisdiction")
    /\ Has(obj, "contact_details")
    /\ result = InvalidType

\* C6: a role of type upper, lower or legislature without a district yields
\* 'district missing', a role of type gov or lt_gov with a district yields
\* 'extra key: district', and validating a person reports the errors of the
\* role at list index i prefixed with 'roles.i: ', the roles in index order.
C6_RoleDispatch ==
    /\ Returned("is_role") /\ TypeOf(obj) \in LegislativeTypes
       /\ ~Has(obj, "district")
          => HasError(<<"district", " missing">>)
    /\ Returned("is_role") /\ TypeOf(obj) \in ExecutiveTypes
       /\ Has(obj, "district")
          => HasError(<<"extra key: ", "district">>)
    /\ Returned("validate_obj") /\ schemaName = "PERSON_FIELDS"
       /\ Has(obj, "roles")
          => LET roles == obj.fields["roles"].items
                 own(k) == is_role(roles[k], setOrder).errors
             IN  SelectSeq(result.errors, LAMBDA e : e[1] = "roles")
                   = Concat([k \in DOMAIN roles |->
                        [j \in DOMAIN own(k) |->
                            <<"roles", ".", str(k - 1), ": ">> \o own(k)[j]]])

C6_Witness ==
    /\ Returned("validate_obj")
    /\ schemaName = "PERSON_FIELDS"
    /\ Has(obj, "roles")
    /\ HasError(<<"roles", ".", "0", ": ", "district", " missing">>)
    /\ HasError(<<"roles", ".", "1", ": ", "extra key: ", "district">>)
    /\ Len(result.errors) = 2


(***************************************************************************)
(* Properties of validate_roles.                                           *)
(***************************************************************************)
\* the number of active entries of the collection validate_roles is given
ActiveCount ==
    Cardinality({i \in DOMAIN obj.fields[roles_key].items :
                    role_is_active(obj.fields[roles_key].items[i])})
InactiveCount ==
    Cardinality({i \in DOMAIN obj.fields[roles_key].items :
                    ~role_is_active(obj.fields[roles_key].items[i])})

\* C7: for the roles collection with n active roles validate_roles returns
\* ['no active roles'] (not retired, n = 0), [] (not retired, n = 1),
\* ['n active roles'] (not retired, n > 1), [] (retired, n = 0) and
\* ['n active roles on retired person'] (retired, n >= 1); the inactive roles do
\* not change the result.
C7_RolesCardinality ==
    Returned("validate_roles") /\ roles_key = "roles" =>
        result.errors =
            CASE ~retired /\ ActiveCount = 0 -> << <<"no active ", "roles">> >>
              [] ~retired /\ ActiveCount = 1 -> <<>>
              [] ~retired /\ ActiveCount > 1 ->
                    << <<DecimalNumerals[ActiveCount + 1], " active roles">> >>
              [] retired /\ ActiveCount = 0 -> <<>>
              [] retired /\ ActiveCount >= 1 ->
                    << <<DecimalNumerals[ActiveCount + 1],
                         " active roles on retired person">> >>

C7_Witness ==
    /\ Returned("validate_roles")
    /\ roles_key = "roles"
    /\ retired
    /\ ActiveCount = 2
    /\ InactiveCount = 1
    /\ result.errors = << <<"2", " active roles on retired person">> >>

\* C8 (as claimed): for the party collection the result does not depend on the
\* retired flag: ['no active party'] with no active party entry, [] with one or
\* more, for retired = false and retired = true alike.
C8_PartyIgnoresRetired ==
    Returned("validate_roles") /\ roles_key = "party" =>
        result.errors =
            IF ActiveCount = 0 THEN << <<"no active ", "party">> >> ELSE <<>>

\* validate_roles(person, 'party', retired=True) with no active party entry
\* returns []
C8_RetiredPartyUnchecked ==
    /\ Returned("validate_roles")
    /\ roles_key = "party"
    /\ retired
    /\ ActiveCount = 0
    /\ result.errors = <<>>

(***************************************************************************)
(* Properties of get_expected_districts and compare_districts.             *)
(***************************************************************************)
ExpectedHas(chamber) == chamber \in DictKeys(expected.value)
OtherType(seats) ==
    ~Falsy(seats) /\ seats.kind \notin {"int", "bool", "list", "dict"}

\* C9: get_expected_districts builds the expectation of each chamber from
\* '<chamber>_seats': an integer N gives exactly the labels "1".."N" with
\* capacity 1 (True counts as the integer 1), a list exactly its labels with
\* capacity 1, a mapping is used unchanged; a chamber whose setting is absent,
\* empty or zero gets no entry; a value of any other type raises ValueError.
C9_ExpectedDistricts ==
    Done("get_expected_districts") =>
        IF \E c \in {"upper", "lower", "legislature"} :
                OtherType(SeatsOf(settings, c))
        THEN expected.exc = "ValueError"
        ELSE /\ expected.exc = ""
             /\ \A c \in {"upper", "lower", "legislature"} :
                   LET seats == SeatsOf(settings, c)
                       got == DictGet(expected.value, c)
                   IN  IF Falsy(seats) THEN ~ExpectedHas(c)
                       ELSE /\ ExpectedHas(c)
                            /\ Cardinality({i \in DOMAIN expected.value :
                                              expected.value[i].key = c}) = 1
                            /\ CASE seats.kind \in {"int", "bool"} ->
                                      /\ DOMAIN got =
                                           {DecimalNumerals[m + 1] : m \in 1..seats.n}
                                      /\ \A d \in DOMAIN got : got[d] = 1
                                 [] seats.kind = "list" ->
                                      /\ DOMAIN got =
                                           {seats.labels[i] : i \in DOMAIN seats.labels}
                                      /\ \A d \in DOMAIN got : got[d] = 1
                                 [] seats.kind = "dict" -> got = seats.caps

C9_Witness ==
    /\ Done("get_expected_districts")
    /\ expected.exc = ""
    /\ SeatsOf(settings, "upper") = SeatsInt(3)
    /\ SeatsOf(settings, "lower") = SeatsList(<<"A">>)
    /\ SeatsOf(settings, "legislature").kind = "dict"
    /\ DOMAIN DictGet(expected.value, "upper") = {"1", "2", "3"}
    /\ DictGet(expected.value, "lower") = [d \in {"A"} |-> 1]
    /\ DictGet(expected.value, "legislature") = [d \in {"At-Large"} |-> 3]

PerDistrictMessage(m) ==
    m[1] \in {"missing legislator for ", "extra legislator for ",
              "extra legislator for unexpected seat "}

\* C10: when the chamber keys of the expectation and of the occupancy differ,
\* compare_districts returns exactly one error and no warning, and compares no
\* district: no 'missing legislator' or 'extra legislator' message is produced.
C10_ChamberMismatch ==
    Done("compare_districts")
    /\ DictKeys(expected.value) # DictKeys(actual) =>
        /\ Len(compared.errors) = 1
        /\ compared.warnings = <<>>
        /\ compared.errors[1][1] = "expected districts for "
        /\ ~PerDistrictMessage(compared.errors[1])

\* the chambers differ, and a chamber present in both has an unexpected, an
\* over-filled and an unfilled district
C10_Witness ==
    /\ Done("compare_districts")
    /\ DictKeys(expected.value) = {"upper", "lower"}
    /\ DictKeys(actual) = {"upper", "gov"}
    /\ LET exp == DictGet(expected.value, "upper")
           act == DictGet(actual, "upper")
       IN  /\ DOMAIN exp = {"1", "2"}
           /\ DOMAIN act = {"1", "4"}
           /\ Len(act["1"]) = 2
    /\ Len(compared.errors) = 1
    /\ compared.warnings = <<>>

\* the chambers agree, so that the districts are compared
Compared == Done("compare_districts") /\ DictKeys(expected.value) = DictKeys(actual)
\* the messages of ms about (chamber, district)
About(ms, chamber, district) ==
    {i \in DOMAIN ms : ms[i][2] = chamber /\ ms[i][4] = district}
ErrorsAbout(chamber, district) ==
    Cardinality(About(compared.errors, chamber, district))
WarningsAbout(chamber, district) ==
    Cardinality(About(compared.warnings, chamber, district))
Capacity(chamber) == DictGet(expected.value, chamber)
Occupied(chamber) == DictGet(actual, chamber)
Districts(chamber) == DOMAIN Capacity(chamber) \cup DOMAIN Occupied(chamber)
Count(chamber, district) ==
    IF district \in DOMAIN Occupied(chamber)
    THEN Len(Occupied(chamber)[district]) ELSE 0

\* C11: when the chamber keys agree, every (chamber, district) pair gets: one
\* warning and no error when it is expected and holds fewer occupants than its
\* capacity (no occupancy entry counts as none); one error and no warning when
\* it is occupied and not expected, or expected and over its capacity; nothing
\* when its occupants equal its capacity; and there is no other message.
C11_DistrictClassification ==
    Compared =>
        /\ \A c \in DictKeys(expected.value) : \A d \in Districts(c) :
              LET e == ErrorsAbout(c, d)
                  w == WarningsAbout(c, d)
              IN  IF d \notin DOMAIN Capacity(c) THEN e = 1 /\ w = 0
                  ELSE IF Count(c, d) < Capacity(c)[d] THEN e = 0 /\ w = 1
                  ELSE IF Count(c, d) > Capacity(c)[d] THEN e = 1 /\ w = 0
                  ELSE e = 0 /\ w = 0
        /\ \A i \in DOMAIN compared.errors :
              /\ compared.errors[i][2] \in DictKeys(expected.value)
              /\ compared.errors[i][4] \in Districts(compared.errors[i][2])
        /\ \A i \in DOMAIN compared.warnings :
              /\ compared.warnings[i][2] \in DictKeys(expected.value)
              /\ compared.warnings[i][4] \in Districts(compared.warnings[i][2])

\* one chamber with a full, an under-filled (one of two seats), an unoccupied
\* and an unexpected district
C11_Witness ==
    /\ Compared
    /\ DictKeys(expected.value) = {"upper"}
    /\ Capacity("upper") = [d \in {"1", "A"} |-> IF d = "A" THEN 2 ELSE 1]
    /\ DOMAIN Occupied("upper") = {"A", "4"}
    /\ Count("upper", "A") = 1
    /\ Len(compared.errors) = 1
    /\ Len(compared.warnings) = 2

\* the labels an over-filled error names after its ':\n\t'
Named(e) ==
    {SubSeq(e, k, k + 3) : k \in {j \in 6..Len(e) : (j - 6) % 5 = 0}}
OverFilled(chamber, district) ==
    /\ district \in DOMAIN Capacity(chamber)
    /\ Count(chamber, district) > Capacity(chamber)[district]

\* C12: the one error of an over-filled district names the label of every
\* occupant of that district, each once, and of nobody else.
C12_OverfillNamesOccupants ==
    Compared =>
        \A c \in DictKeys(expected.value) : \A d \in Districts(c) :
            OverFilled(c, d) =>
                /\ ErrorsAbout(c, d) = 1
                /\ \A i \in About(compared.errors, c, d) :
                      LET e == compared.errors[i]
                          occupants == Occupied(c)[d]
                      IN  /\ e[1] = "extra legislator for "
                          /\ Len(e) = 5 + 5 * Len(occupants) - 1
                          /\ Named(e) = {get_filename(occupants[j]) :
                                            j \in DOMAIN occupants}
                          /\ Cardinality(Named(e)) = Len(occupants)

\* capacity 1 and the two occupants Anne and Bob
C12_Witness ==
    /\ Compared
    /\ DictKeys(expected.value) = {"upper"}
    /\ Capacity("upper") = [d \in {"A"} |-> 1]
    /\ Occupied("upper") = [d \in {"A"} |-> <<Person(1), Person(2)>>]
    /\ compared.warnings = <<>>
    /\ compared.errors =
          << <<"extra legislator for ", "upper", " ", "A", ":\n\t",
               "Anne", "-", "ocd-person/1", ".yml", "\n\t",
               "Bob", "-", "ocd-person/2", ".yml">> >>

\* the place of a district label in Python's string order
LabelIndex(d) == CHOOSE k \in DOMAIN SortedLabels : SortedLabels[k] = d
InLabelOrder(ms) ==
    \A i, j \in DOMAIN ms :
        i < j /\ ms[i][2] = ms[j][2] => LabelIndex(ms[i][4]) < LabelIndex(ms[j][4])

\* C18 (as claimed): within one chamber the warnings, and the errors, come out
\* in sorted district-label order whatever the kind of each district.
C18_SortedWithinChamber ==
    Compared => InLabelOrder(compared.warnings) /\ InLabelOrder(compared.errors)

\* district 1 is under-filled and district A unoccupied: the warning for A
\* comes first
C18_MissingBeforeUnderFilled ==
    /\ Compared
    /\ DictKeys(expected.value) = {"upper"}
    /\ Capacity("upper") = [d \in {"1", "A"} |-> IF d = "1" THEN 2 ELSE 1]
    /\ DOMAIN Occupied("upper") = {"1"}
    /\ Count("upper", "1") = 1
    /\ compared.warnings = << <<"missing legislator for ", "upper", " ", "A">>,
                              <<"missing legislator for ", "upper", " ", "1">> >>

\* the schema holds, at some depth, a node that is neither a validator list, a
\* nested mapping nor a NestedList
RECURSIVE Malformed(_)
Malformed(schema) ==
    \E i \in DOMAIN schema :
        LET node == schema[i].node
        IN  CASE node.shape = "list" -> FALSE
              [] node.shape = "dict" -> Malformed(node.schema)
              [] node.shape = "NestedList" -> node.fn = "" /\ Malformed(node.schema)
              [] OTHER -> TRUE

\* C19 (as claimed): validate_obj raises for every record validated against a
\* schema with a node of unrecognized shape, whether or not the record has the
\* field of that node.
C19_MalformedSchemaRaises ==
    Done("validate_obj") /\ Malformed(SchemaOf(schemaName)) => result.exc # ""

\* a record without the fields of the malformed nodes is validated as if the
\* schema were valid
C19_MalformedSchemaAccepted ==
    /\ Done("validate_obj")
    /\ schemaName = "NICKNAME_FIELDS"
    /\ Keys(obj) = {"name", "junk"}
    /\ result = Ok(<< <<"extra key: ", "junk">> >>)

\* C15 (as claimed): validate_obj with a shipped schema, validate_roles and
\* Validator.validate_person return for every record that is a tree of scalars,
\* lists and mappings; none raises.
C15_NeverRaises ==
    /\ \/ Done("validate_obj")
          /\ schemaName \in {"PERSON_FIELDS", "ORGANIZATION_FIELDS"}
       \/ Done("validate_roles")
       => result.exc = ""
    /\ op = "process_dir" /\ position < Len(files.people) + Len(files.retired)
       => pc # "raised"

\* a scalar where PERSON_FIELDS declares the mapping 'ids': AttributeError
C15_ScalarForObjectRaises ==
    /\ Done("validate_obj")
    /\ schemaName = "PERSON_FIELDS"
    /\ Has(obj, "ids")
    /\ obj.fields["ids"] = StrVal("is-ok")
    /\ result.exc = "AttributeError"

\* validate_person of a person without the 'id' field: KeyError, after its
\* errors were stored
C15_NoIdRaises ==
    /\ op = "process_dir"
    /\ pc = "raised"
    /\ files.people = <<File("a.yml", Ed)>>
    /\ result.exc = "KeyError"
    /\ self.errors = [fn \in {"a.yml"} |-> << <<"id", " missing">> >>]

\* a person without the 'roles' field: KeyError
C15_NoRolesRaises ==
    /\ Done("validate_roles")
    /\ obj = EmptyDict
    /\ roles_key = "roles"
    /\ result.exc = "KeyError"

(***************************************************************************)
(* Properties of the Validator and of process_dir.                         *)
(***************************************************************************)
Running == op = "process_dir" /\ pc \in {"ready", "done"}
AllFiles == Len(files.people) + Len(files.retired) + Len(files.organizations)
\* the person files of the first loop validated so far
PeopleValidated ==
    {i \in DOMAIN files.people : i <= position}
\* the first active role of a person, None for a person without one
FirstActiveRole(person) ==
    LET active == SelectSeq(person.fields["roles"].items, role_is_active)
    IN  IF active = <<>> THEN None ELSE active[1]
HoldsSeat(person) ==
    /\ FirstActiveRole(person) # None
    /\ TypeOf(FirstActiveRole(person)) \in LegislativeTypes
\* the records listed in the occupancy, with their chamber and district
Listings ==
    {<<i, d, j>> \in
        (DOMAIN self.active_legislators)
            \X (UNION {DOMAIN self.active_legislators[k].value :
                          k \in DOMAIN self.active_legislators})
            \X (1..Len(files.people)) :
            /\ d \in DOMAIN self.active_legislators[i].value
            /\ j \in DOMAIN self.active_legislators[i].value[d]}

\* C13 (as claimed): the occupancy holds only the chambers upper, lower and
\* legislature; every record listed under (chamber, district) is a person of
\* the first loop (not retired) whose active role has that type and district;
\* every such person is listed once, and nobody else is listed.
C13_OccupancyLegislativeOnly ==
    Running =>
        /\ \A i \in DOMAIN self.active_legislators :
              self.active_legislators[i].key \in LegislativeTypes
        /\ \A l \in Listings :
              LET person == self.active_legislators[l[1]].value[l[2]][l[3]]
                  role == FirstActiveRole(person)
              IN  /\ \E k \in PeopleValidated : files.people[k].data = person
                  /\ HoldsSeat(person)
                  /\ TypeOf(role) = self.active_legislators[l[1]].key
                  /\ KeyOf(GetField(role, "district", None)) = l[2]
        /\ Cardinality(Listings) =
              Cardinality({k \in PeopleValidated : HoldsSeat(files.people[k].data)})

\* the governor is listed under the chamber 'gov' and the district None
C13_ExecutiveListed ==
    /\ Running
    /\ files.people = <<File("a.yml", Anne), File("b.yml", Cy)>>
    /\ position >= 2
    /\ DictKeys(self.active_legislators) = {"upper", "gov"}
    /\ DictGet(self.active_legislators, "gov") = [d \in {"None"} |-> <<Cy>>]

\* a person without an active role is listed under the chamber None
C13_NoActiveRoleListed ==
    /\ Running
    /\ files.people = <<File("a.yml", Di)>>
    /\ position >= 1
    /\ self.active_legislators = <<Item("None", [d \in {"None"} |-> <<Di>>])>>

\* C14: in process_dir the districts are reconciled in one step, taken when
\* every person, retired and organization file has been validated; it reads the
\* occupancy of all the person files and leaves it as it is; nothing is folded
\* into the occupancy, and nothing at all happens, once it has run; the
\* occupancy changes only in a step of the first loop.
C14_ReconcileAfterAllFolded ==
    [][op = "process_dir" =>
        /\ pc # "done" /\ pc' = "done" =>
              /\ pc = "ready"
              /\ position = AllFiles
              /\ Cardinality(Listings) = Len(files.people)
              /\ self'.active_legislators = self.active_legislators
              /\ compared' = compare_districts(expected.value,
                                 OccupantsOf(self.active_legislators))
        /\ pc = "done" =>
              /\ pc' = "done"
              /\ compared' = compared
              /\ self' = self
        /\ self'.active_legislators # self.active_legislators =>
              /\ pc = "ready"
              /\ pc' # "done"
              /\ position < Len(files.people)
        /\ compared' # compared => pc = "ready" /\ pc' = "done"]_vars

C14_Witness ==
    /\ Done("process_dir")
    /\ files.people = <<File("a.yml", Anne), File("b.yml", Bob)>>
    /\ files.retired = <<File("r.yml", Di)>>
    /\ Len(files.organizations) = 1
    /\ position = 4
    /\ Len(compared.errors) = 1
    /\ compared.warnings = << <<"missing legislator for ", "upper", " ", "2">> >>

\* the person files of both loops, all validated when an organization is
PersonFiles == files.people \o files.retired
DefinedIds == {PersonFiles[i].data.fields["id"] : i \in DOMAIN PersonFiles}
\* the name the last person file with this id gives
DefinedName(id) ==
    LET last == CHOOSE i \in DOMAIN PersonFiles :
                    /\ PersonFiles[i].data.fields["id"] = id
                    /\ \A j \in DOMAIN PersonFiles :
                          PersonFiles[j].data.fields["id"] = id => j <= i
    IN  PersonFiles[last].data.fields["name"]
OrgValidated == Running /\ Len(files.organizations) = 1 /\ position = AllFiles
OrgFile == files.organizations[1]
Memberships == OrgFile.data.fields["memberships"].items
WithId == {i \in DOMAIN Memberships :
              ~ValueFalsy(GetField(Memberships[i], "id", None))}
Unregistered == {i \in WithId : Memberships[i].fields["id"] \notin DefinedIds}
Renamed ==
    {i \in WithId \ Unregistered :
        DefinedName(Memberships[i].fields["id"]) # Memberships[i].fields["name"]}
Count16(ms, Test(_)) == Cardinality({i \in DOMAIN ms : Test(ms[i])})
OrgErrors == self.errors[OrgFile.filename]
OrgWarnings == Get(self.warnings, OrgFile.filename, <<>>)

\* C16: after validate_org, with the persons of the person and retired files
\* registered, every id of a membership that no person file defines has as
\* many 'invalid person ID' errors as memberships carrying it and no warning;
\* every id registered has no such error and as many warnings as memberships
\* carrying it with another name; memberships without id add nothing; and the
\* registered ids only grow.
C16_MembershipsChecked ==
    /\ [](OrgValidated =>
            /\ \A i \in WithId :
                  LET id == Memberships[i].fields["id"]
                      same == {j \in WithId : Memberships[j].fields["id"] = id}
                      errs == Count16(OrgErrors,
                                  LAMBDA e : e = <<"invalid person ID ", KeyOf(id)>>)
                      warns == Count16(OrgWarnings,
                                  LAMBDA w : w[1] = "ID " /\ w[2] = KeyOf(id))
                  IN  IF i \in Unregistered
                      THEN errs = Cardinality(same) /\ warns = 0
                      ELSE errs = 0 /\ warns = Cardinality(same \cap Renamed)
            /\ Count16(OrgErrors, LAMBDA e : e[1] = "invalid person ID ")
                  = Cardinality(Unregistered)
            /\ Len(OrgWarnings) = Cardinality(Renamed)
            /\ DOMAIN self.person_mapping = DefinedIds)
    /\ [][DOMAIN self.person_mapping \subseteq DOMAIN self'.person_mapping]_vars

\* Anne under another name, the retired Di, and Bob, whom no file defines, twice
C16_Witness ==
    /\ OrgValidated
    /\ files.people = <<File("a.yml", Anne)>>
    /\ files.retired = <<File("r.yml", Di)>>
    /\ Len(Memberships) = 4
    /\ Cardinality(Unregistered) = 2
    /\ Cardinality(Renamed) = 1
    /\ Len(OrgWarnings) = 1
    /\ Len(OrgErrors) = 3


(***************************************************************************)
(* to_database: the transaction.                                           *)
(***************************************************************************)
Finished(o) == op = o /\ pc \in {"done", "raised"}
WholeRun ==
    /\ frame.type = "organization"
    /\ frame.index = Len(committee_files)
    /\ (frame.existing_ids \ frame.ids # {} => purge)
LoadedData == {person_files[i] : i \in DOMAIN person_files}

\* C17: when to_database runs in safe mode the database after the run, be it
\* ended or left by an exception, equals the database before it (persons,
\* organizations, posts, sub-objects and memberships), whatever the files and
\* the purge option are; the database before the run is what the rollback
\* restores.
C17_SafeModeChangesNothing ==
    /\ [](Finished("to_database") /\ safe => db = snapshot)
    /\ [][op = "to_database" => snapshot' = snapshot]_vars

\* a safe run with purge that went through both directories: it created Bob,
\* purged Gil and the Ethics committee, and ended with the database it found
C17_Witness ==
    /\ Finished("to_database") /\ pc = "done"
    /\ safe /\ purge
    /\ WholeRun
    /\ BobData \in LoadedData
    /\ SECOND_PERSON_ID \notin DOMAIN snapshot.Person
    /\ GONE_PERSON_ID \in DOMAIN snapshot.Person
    /\ GONE_PERSON_ID \notin frame.ids
    /\ OLD_COMMITTEE_ID \in frame.existing_ids \ frame.ids
    /\ db = snapshot

\* the same run before line 285: the database differs from the one found
C17_ChangedInside ==
    /\ op = "to_database" /\ pc = "end"
    /\ safe /\ purge
    /\ SECOND_PERSON_ID \in DOMAIN db.Person
    /\ GONE_PERSON_ID \in DOMAIN snapshot.Person \ DOMAIN db.Person
    /\ OLD_COMMITTEE_ID \in DOMAIN snapshot.Organization \ DOMAIN db.Organization

(***************************************************************************)
(* load_directory: the ids that went missing.                              *)
(***************************************************************************)
Finishing ==
    /\ op = "to_database"
    /\ pc = "loading"
    /\ frame.index = Len(FilesOf(frame.type))
MissingNow == frame.existing_ids \ frame.ids
\* the ids the database held for the jurisdiction before the run
Existing(type) ==
    IF type = "person"
    THEN {p \in DOMAIN snapshot.Person :
            \E i \in DOMAIN snapshot.memberships :
                LET m == snapshot.memberships[i]
                IN  /\ m["person"] = p
                    /\ snapshot.Organization[m["organization"]]["jurisdiction_id"]
                          = JURISDICTION_ID}
    ELSE {o \in DOMAIN snapshot.Organization :
            /\ snapshot.Organization[o]["jurisdiction_id"] = JURISDICTION_ID
            /\ snapshot.Organization[o]["classification"] = "committee"}
OtherModel(type) == IF type = "person" THEN "Organization" ELSE "Person"

\* C20: the existing ids of load_directory are the ids the database holds for
\* the jurisdiction.  After the files are loaded: with missing ids (existing,
\* not loaded) and purge off, load_directory raises CancelTransaction and the
\* run ends with the database as it was before the run; with missing ids and
\* purge on, the objects deleted are exactly the missing ones, none of them
\* loaded from a file, and the rows of the other objects stay as they are;
\* with no missing id the database is left as it is.
C20_MissingIds ==
    /\ [](op = "to_database" /\ pc = "loading"
            => frame.existing_ids = Existing(frame.type))
    /\ [][Finishing =>
            LET table == ModelOf(frame.type)
            IN  /\ MissingNow # {} /\ ~purge
                    => pc' = "done" /\ result' = Ok(<<>>) /\ db' = snapshot
                /\ MissingNow # {} /\ purge
                    => /\ pc' \in {"between", "end"}
                       /\ DOMAIN db'[table] = DOMAIN db[table] \ MissingNow
                       /\ DOMAIN db[table] \cap frame.ids \subseteq DOMAIN db'[table]
                       /\ \A id \in DOMAIN db'[table] :
                             Without(db'[table][id], {"parent"})
                                 = Without(db[table][id], {"parent"})
                       /\ db'[OtherModel(frame.type)] = db[OtherModel(frame.type)]
                /\ MissingNow = {}
                    => pc' \in {"between", "end"} /\ db' = db]_vars

\* purge on: Gil, in the database and in no file, was deleted after the file
\* of Anne, in the database, and the file of Bob, new, were loaded
C20_Witness ==
    /\ op = "to_database" /\ pc = "between" /\ purge
    /\ frame.type = "person"
    /\ frame.existing_ids = {GOOD_PERSON_ID, GONE_PERSON_ID}
    /\ frame.ids = {GOOD_PERSON_ID, SECOND_PERSON_ID}
    /\ DOMAIN snapshot.Person = {GOOD_PERSON_ID, GONE_PERSON_ID}
    /\ DOMAIN db.Person = {GOOD_PERSON_ID, SECOND_PERSON_ID}

\* purge off: the run ended at the missing Gil, the creation of Bob rolled
\* back and the organization files not loaded
C20_Cancelled ==
    /\ op = "to_database" /\ pc = "done" /\ ~purge /\ ~safe
    /\ frame.type = "person" /\ frame.index = Len(person_files)
    /\ MissingNow = {GONE_PERSON_ID}
    /\ BobData \in LoadedData
    /\ committee_files # <<>>
    /\ db = snapshot

\* no missing id: the run went on with what the files had changed
C20_NoneMissing ==
    /\ op = "to_database" /\ pc = "between"
    /\ frame.existing_ids # {} /\ MissingNow = {}
    /\ db # snapshot


(***************************************************************************)
(* update_subobjects: two calls with the same list.                        *)
(***************************************************************************)
\* the sub-objects of Anne the database d stores in the field of the calls
StoredObjects(d) ==
    LET rows == SelectSeq(d[TableOf("Person", subobjects.fieldname)],
                          LAMBDA row : row["person"] = GOOD_PERSON_ID)
    IN  [i \in DOMAIN rows |-> Without(rows[i], {"person"})]
\* the sub-objects the list passed describes
GivenObjects ==
    [i \in DOMAIN subobjects.list |->
        Merge(RelatedDefaults(subobjects.fieldname), subobjects.list[i])]
Times(x, s) == Cardinality({i \in DOMAIN s : s[i] = x})
SameObjects(s, t) ==
    \A x \in {s[i] : i \in DOMAIN s} \cup {t[i] : i \in DOMAIN t} :
        Times(x, s) = Times(x, t)
Last(s) == s[Len(s)]

\* C21 (as claimed): a call of update_subobjects returns True exactly when it
\* changes the stored sub-objects; after a call the stored sub-objects are
\* the objects of the list; a second call with the same list, repeated
\* entries included, returns False and leaves the database, the parent's
\* save count included, as it is.
C21_Idempotent ==
    [][op = "update_subobjects" =>
        /\ Last(returned') <=> StoredObjects(db') # StoredObjects(db)
        /\ SameObjects(StoredObjects(db'), GivenObjects)
        /\ pc = "called" => ~Last(returned') /\ db' = db]_vars

\* the part of C21 that holds: a call that returns False changes nothing, a
\* call that returns True leaves the objects of the list stored, in the
\* order of the list, and saves the parent
C21_ReturnValue ==
    [][op = "update_subobjects" =>
        IF Last(returned')
        THEN /\ StoredObjects(db') = GivenObjects
             /\ db'.Person[GOOD_PERSON_ID]["saves"]
                   = db.Person[GOOD_PERSON_ID]["saves"] + 1
        ELSE db' = db]_vars

\* the same link twice: the second call finds two rows for each entry,
\* returns True, deletes and creates the rows again and saves Anne
C21_RepeatedEntryRewritten ==
    /\ op = "update_subobjects" /\ pc = "done"
    /\ subobjects.list = << [url |-> "https://example.com"],
                            [url |-> "https://example.com"] >>
    /\ returned = <<TRUE, TRUE>>
    /\ db.Person[GOOD_PERSON_ID]["saves"]
          = snapshot.Person[GOOD_PERSON_ID]["saves"] + 2

\* a link without a note passed while the link is stored with a note: the
\* call finds one row for it, returns False and the stored note stays
C21_StoredNoteKept ==
    /\ op = "update_subobjects" /\ pc = "called"
    /\ subobjects.list = << [url |-> "https://example.com"] >>
    /\ returned = <<FALSE>>
    /\ StoredObjects(db) = << [url |-> "https://example.com", note |-> "home"] >>

\* a list without repeated entries on the database of Anne's file: the second
\* call returns False and changes nothing
C21_DistinctEntriesKept ==
    /\ op = "update_subobjects" /\ pc = "done"
    /\ subobjects.list = << [url |-> "http://example.com"],
                            [url |-> "https://example.com", note |-> "home"] >>
    /\ returned = <<TRUE, FALSE>>
    /\ StoredObjects(db) = GivenObjects


(***************************************************************************)
(* load_person: the committee memberships.                                 *)
(***************************************************************************)
InCommittee(d, row) ==
    d.Organization[row["organization"]]["classification"] = "committee"
CommitteeMemberships(d, person) ==
    SelectSeq(d.memberships,
              LAMBDA row : row["person"] = person /\ InCommittee(d, row))
OtherMemberships(d, person) ==
    SelectSeq(d.memberships,
              LAMBDA row : row["person"] = person /\ ~InCommittee(d, row))
LoadsPerson ==
    /\ op = "to_database"
    /\ pc = "loading"
    /\ frame.type = "person"
    /\ frame.index < Len(person_files)

\* C22: a load_person that returns leaves the committee memberships of every
\* person, the one loaded included, as they were, whether or not it wrote
\* the person's other memberships again; and it writes them again only when
\* the memberships outside committees differ from the ones of the file.
C22_CommitteeMembershipsKept ==
    [][LoadsPerson /\ pc' = "loading" =>
        LET person == person_files[frame.index + 1]["id"]
        IN  /\ \A p \in DOMAIN db'.Person :
                  CommitteeMemberships(db', p) = CommitteeMemberships(db, p)
            /\ Len(OtherMemberships(db', person))
                  = Len(Get(person_files[frame.index + 1], "party", <<>>))
                    + Len(Get(person_files[frame.index + 1], "roles", <<>>))
            /\ person \in DOMAIN db.Person
               /\ OtherMemberships(db', person) = OtherMemberships(db, person)
                  => db'.memberships = db.memberships]_vars

\* Anne, chair of the Finance committee, was loaded from a file that moves her
\* to district 2 and drops her party: her two other memberships were deleted,
\* one was created, and she still chairs the committee
C22_Witness ==
    /\ op = "to_database" /\ pc = "loading"
    /\ frame.type = "person" /\ frame.index = 1
    /\ person_files[1] = AnneMoved
    /\ Len(OtherMemberships(snapshot, GOOD_PERSON_ID)) = 2
    /\ Len(OtherMemberships(db, GOOD_PERSON_ID)) = 1
    /\ OtherMemberships(db, GOOD_PERSON_ID)[1]["post"] = PostKey(SENATE_ID, "2")
    /\ Len(CommitteeMemberships(db, GOOD_PERSON_ID)) = 1
    /\ CommitteeMemberships(db, GOOD_PERSON_ID)
          = CommitteeMemberships(snapshot, GOOD_PERSON_ID)
    /\ CommitteeMemberships(db, GOOD_PERSON_ID)[1]["role"] = "chair"

\* Anne loaded from the file the database was loaded from: nothing is written
C22_SameFileNoWrite ==
    /\ op = "to_database" /\ pc = "loading"
    /\ frame.type = "person" /\ frame.index = 1
    /\ person_files[1] = AnneData
    /\ Len(CommitteeMemberships(db, GOOD_PERSON_ID)) = 1
    /\ db = snapshot

=============================================================================
